---------------------------- MODULE Spec2Model ----------------------------
(***************************************************************************)
(* Account monitor (stake-plus/account-manager): the balance               *)
(* reconciliation engine of monitor.go, the connection cache of            *)
(* networks/manager.go and the goroutines main.go starts.                  *)
(*                                                                         *)
(* Amounts are integers in minimal chain units.  The threshold is the      *)
(* configured decimal text, kept as a number of millionths                 *)
(* (0.0001 = 100 / 10^6); strconv.ParseFloat and the big.Float pipeline of *)
(* processTokenBalance are computed bit by bit below, so the comparison    *)
(* the code makes is the comparison the model makes.                       *)
(***************************************************************************)
EXTENDS Integers, Sequences, FiniteSets, TLC

(***************************************************************************)
(* Bounds of the model.                                                    *)
(***************************************************************************)
MaxCycles == 2
MaxChainChanges == 2
MaxRefreshes == 1
MaxFailures == 1
MaxPanics == 1

(***************************************************************************)
(* Binary floating point.  A positive value is [e, bits]: the bits are the *)
(* mantissa, most significant first (bits[1] = 1), and the value is        *)
(* 0.b1 b2 ... bp * 2^e.                                                   *)
(***************************************************************************)
Float64Prec == 53
BigFloatMinPrec == 64
ThresholdScale == 1000000

RECURSIVE Pow10(_)
Pow10(d) == IF d = 0 THEN 1 ELSE 10 * Pow10(d - 1)

Pow2 == <<1, 2, 4, 8, 16, 32, 64, 128, 256, 512, 1024, 2048, 4096, 8192, 16384,
          32768, 65536, 131072, 262144, 524288, 1048576, 2097152, 4194304,
          8388608, 16777216, 33554432, 67108864, 134217728, 268435456,
          536870912, 1073741824>>
TwoTo(k) == Pow2[k + 1]

Abs(x) == IF x < 0 THEN -x ELSE x

\* big.Int.BitLen of a value below 2^31.
BitLen(x) ==
    IF x = 0 THEN 0
    ELSE CHOOSE k \in 1..31 : TwoTo(k - 1) <= x /\ (k = 31 \/ x < TwoTo(k))

\* big.Float.SetInt: the precision becomes max(x.BitLen(), 64).
SetIntPrec(x) == IF BitLen(Abs(x)) > BigFloatMinPrec THEN BitLen(Abs(x)) ELSE BigFloatMinPrec

\* The k binary digits of x (x < 2^k), most significant first.
IntBits(x, k) == [i \in 1..k |-> (x \div TwoTo(k - i)) % 2]

\* Long division, eight bits at a time: the next 8*chunks bits of r/m
\* (r < m < 2^23) and the remainder left.
RECURSIVE DivBits(_, _, _)
DivBits(r, m, chunks) ==
    IF chunks = 0 THEN [bits |-> <<>>, rem |-> r]
    ELSE LET rest == DivBits((r * 256) % m, m, chunks - 1)
         IN  [bits |-> IntBits((r * 256) \div m, 8) \o rest.bits, rem |-> rest.rem]

\* bits + 1 on a mantissa; carry is 1 when every bit was 1.
Increment(bits) ==
    LET zeros == {i \in 1..Len(bits) : bits[i] = 0}
    IN  IF zeros = {} THEN [bits |-> [i \in 1..Len(bits) |-> 0], carry |-> 1]
        ELSE LET j == CHOOSE i \in zeros : \A k \in zeros : k <= i
             IN  [bits |-> [i \in 1..Len(bits) |->
                               IF i < j THEN bits[i] ELSE IF i = j THEN 1 ELSE 0],
                  carry |-> 0]

\* Round to nearest, ties to even (big.ToNearestEven): up when the first
\* dropped bit is 1 and either a later dropped bit is 1 or the kept mantissa is odd.
RoundNearestEven(e, bits, roundBit, sticky) ==
    IF roundBit = 1 /\ (sticky \/ bits[Len(bits)] = 1)
    THEN LET r == Increment(bits)
         IN  IF r.carry = 1
             THEN [e |-> e + 1, bits |-> <<1>> \o SubSeq(r.bits, 1, Len(bits) - 1)]
             ELSE [e |-> e, bits |-> r.bits]
    ELSE [e |-> e, bits |-> bits]

\* The correctly rounded p-bit quotient n/m (n, m > 0): big.Float.Quo, and
\* strconv.ParseFloat of the decimal n/m with p = 53.  The integer part
\* gives the leading bits; a quotient below 1 is first scaled by 2^z so
\* that its first fraction bit is 1.
RoundRat(n, m, p) ==
    LET whole == n \div m
        frac == n % m
        L == BitLen(whole)
        z == IF whole > 0 \/ frac = 0 THEN 0 ELSE BitLen((m - 1) \div frac) - 1
        d == DivBits(frac * TwoTo(z), m, (p + 1) \div 8 + 1)
        all == IntBits(whole, L) \o d.bits
    IN  RoundNearestEven(IF whole > 0 THEN L ELSE -z, SubSeq(all, 1, p), all[p + 1],
                         d.rem # 0 \/ \E i \in (p + 2)..Len(all) : all[i] = 1)

\* big.Float.Float64: the mantissa already rounded to x's precision is
\* rounded again to 53 bits.
ToFloat64(x) ==
    IF Len(x.bits) <= Float64Prec THEN x
    ELSE RoundNearestEven(x.e, SubSeq(x.bits, 1, Float64Prec), x.bits[Float64Prec + 1],
                          \E i \in (Float64Prec + 2)..Len(x.bits) : x.bits[i] = 1)

\* a < b for two mantissas of the same length.
BitsLess(a, b) ==
    LET diff == {i \in 1..Len(a) : a[i] # b[i]}
    IN  diff # {} /\ LET j == CHOOSE i \in diff : \A k \in diff : i <= k
                     IN  a[j] < b[j]

\* x >= y for two positive floats of the same precision.
FloatGeq(x, y) ==
    IF x.e # y.e THEN x.e > y.e ELSE ~BitsLess(x.bits, y.bits)


\* The magnitude processTokenBalance compares: change / 10^decimals as a
\* big.Float of SetInt's precision, then Float64, then the absolute value.
\* Powers of ten common to both are cancelled first, which leaves the
\* quotient unchanged.
RECURSIVE Quo(_, _, _)
Quo(n, decimals, prec) ==
    IF decimals > 6 /\ n % 10 = 0 THEN Quo(n \div 10, decimals - 1, prec)
    ELSE RoundRat(n, Pow10(decimals), prec)

ChangeValue(change, decimals) ==
    ToFloat64(Quo(Abs(change), decimals, SetIntPrec(change)))

\* strconv.ParseFloat of the configured text (micros / 10^6).
ParseFloat(micros) == RoundRat(micros, ThresholdScale, Float64Prec)

\* changeValue >= m.config.MinBalanceChangeNotification
MeetsThreshold(change, decimals, micros) ==
    micros = 0 \/ FloatGeq(ChangeValue(change, decimals), ParseFloat(micros))

(***************************************************************************)
(* Decimal text of the VARCHAR columns: big.Int.String and SetString.      *)
(***************************************************************************)
RECURSIVE BigString(_)
BigString(x) == IF x < 10 THEN <<x>> ELSE BigString(x \div 10) \o <<x % 10>>

RECURSIVE SetString(_)
SetString(str) ==
    IF Len(str) = 0 THEN 0
    ELSE 10 * SetString(SubSeq(str, 1, Len(str) - 1)) + str[Len(str)]

(***************************************************************************)
(* Text: a Go string is the sequence of its characters.  Parsing asset     *)
(* ids and addresses as strconv, encoding/hex and base58 do.               *)
(***************************************************************************)
DecimalDigits == <<"0", "1", "2", "3", "4", "5", "6", "7", "8", "9">>

HexLower == DecimalDigits \o <<"a", "b", "c", "d", "e", "f">>

HexUpper == DecimalDigits \o <<"A", "B", "C", "D", "E", "F">>

\* The alphabet of github.com/mr-tron/base58.
Base58Alphabet ==
    << "1", "2", "3", "4", "5", "6", "7", "8", "9", "A", "B", "C", "D", "E", "F", "G",
       "H", "J", "K", "L", "M", "N", "P", "Q", "R", "S", "T", "U", "V", "W", "X", "Y",
       "Z", "a", "b", "c", "d", "e", "f", "g", "h", "i", "j", "k", "m", "n", "o", "p",
       "q", "r", "s", "t", "u", "v", "w", "x", "y", "z" >>

\* The value of every character of an alphabet.
Values(alphabet) ==
    [c \in {alphabet[i] : i \in 1..Len(alphabet)} |->
        (CHOOSE i \in 1..Len(alphabet) : alphabet[i] = c) - 1]

DecimalValues == Values(DecimalDigits)

HexValues == Values(HexLower) @@ Values(HexUpper)

Base58Values == Values(Base58Alphabet)

\* The value of the character c, -1 when it is not in the alphabet.
IndexOf(values, c) == IF c \in DOMAIN values THEN values[c] ELSE -1

HexVal(c) == IndexOf(HexValues, c)

\* strings.HasPrefix
HasPrefix(text, prefix) ==
    Len(text) >= Len(prefix) /\ SubSeq(text, 1, Len(prefix)) = prefix

\* The text in double quotes, as characters.
Chars(str) ==
    CASE str = "Asset #" -> <<"A", "s", "s", "e", "t", " ", "#">>
      [] str = "ASSET" -> <<"A", "S", "S", "E", "T">>
      [] str = "Foreign Asset #" ->
            <<"F", "o", "r", "e", "i", "g", "n", " ", "A", "s", "s", "e", "t", " ", "#">>
      [] str = "FA" -> <<"F", "A">>
      [] str = "Tether" -> <<"T", "e", "t", "h", "e", "r">>
      [] str = "USDT" -> <<"U", "S", "D", "T">>
      [] str = "Asset" -> <<"A", "s", "s", "e", "t">>
      [] str = "Assets" -> <<"A", "s", "s", "e", "t", "s">>
      [] str = "ForeignAssets" ->
            <<"F", "o", "r", "e", "i", "g", "n", "A", "s", "s", "e", "t", "s">>
      [] str = "Metadata" -> <<"M", "e", "t", "a", "d", "a", "t", "a">>
      [] str = "Kusama" -> <<"K", "u", "s", "a", "m", "a">>
      [] str = "KSM" -> <<"K", "S", "M">>
      [] str = "assethub" -> <<"a", "s", "s", "e", "t", "h", "u", "b">>
      [] str = "relay" -> <<"r", "e", "l", "a", "y">>
      [] str = "foreign" -> <<"f", "o", "r", "e", "i", "g", "n">>

\* strings.Contains
Contains(text, substr) ==
    \E i \in 1..(Len(text) - Len(substr) + 1) : SubSeq(text, i, i + Len(substr) - 1) = substr

\* strings.TrimSpace
TrimSpace(text) ==
    LET keep == {i \in 1..Len(text) : text[i] \notin {" ", "\t", "\n", "\r"}}
    IN  IF keep = {} THEN <<>>
        ELSE SubSeq(text, CHOOSE i \in keep : \A j \in keep : i <= j,
                          CHOOSE i \in keep : \A j \in keep : i >= j)

\* bytes * factor + add on a little-endian byte sequence, growing by the
\* carry.
RECURSIVE MulAdd(_, _, _)
MulAdd(bytes, factor, add) ==
    IF bytes = <<>>
    THEN IF add = 0 THEN <<>> ELSE <<add % 256>> \o MulAdd(<<>>, factor, add \div 256)
    ELSE LET v == Head(bytes) * factor + add
         IN  <<v % 256>> \o MulAdd(Tail(bytes), factor, v \div 256)

\* The number a digit sequence denotes in a base, as little-endian bytes.
RECURSIVE LittleEndian(_, _)
LittleEndian(digits, base) ==
    IF digits = <<>> THEN <<>>
    ELSE MulAdd(LittleEndian(SubSeq(digits, 1, Len(digits) - 1), base), base,
                digits[Len(digits)])

Reverse(seq) == [i \in 1..Len(seq) |-> seq[Len(seq) + 1 - i]]

\* binary.LittleEndian.PutUint32 of a number given by its bytes.
Uint32Bytes(bytes) == [i \in 1..4 |-> IF i <= Len(bytes) THEN bytes[i] ELSE 0]

\* strconv.ParseUint(text, 10, 32): a syntax error for an empty text or a
\* character that is no decimal digit, a range error above 2^32 - 1.
ParseUint32(text) ==
    IF text = <<>> \/ \E i \in 1..Len(text) : IndexOf(DecimalValues, text[i]) < 0
    THEN [ok |-> FALSE, bytes |-> <<>>]
    ELSE LET n == LittleEndian([i \in 1..Len(text) |-> IndexOf(DecimalValues, text[i])], 10)
         IN  IF Len(n) > 4 THEN [ok |-> FALSE, bytes |-> <<>>]
             ELSE [ok |-> TRUE, bytes |-> Uint32Bytes(n)]

\* fmt.Sprintf("%d", n)
FormatUint(n) == [i \in 1..Len(BigString(n)) |-> DecimalDigits[BigString(n)[i] + 1]]

\* HexDecodeString of the rpc client: the prefix 0x is dropped, an odd
\* number of digits gets a leading 0, then encoding/hex.
HexDecodeString(text) ==
    LET t == IF HasPrefix(text, <<"0", "x">>) THEN SubSeq(text, 3, Len(text)) ELSE text
        d == IF Len(t) % 2 = 1 THEN <<"0">> \o t ELSE t
    IN  IF \E i \in 1..Len(d) : HexVal(d[i]) < 0 THEN [ok |-> FALSE, bytes |-> <<>>]
        ELSE [ok |-> TRUE,
              bytes |-> [i \in 1..(Len(d) \div 2) |->
                            16 * HexVal(d[2 * i - 1]) + HexVal(d[2 * i])]]

\* base58.Decode: every leading "1" is a zero byte, the rest is the number
\* in base 58, big-endian; a character outside the alphabet is an error.
Base58Decode(text) ==
    IF \E i \in 1..Len(text) : IndexOf(Base58Values, text[i]) < 0
    THEN [ok |-> FALSE, bytes |-> <<>>]
    ELSE LET ones == {i \in 1..Len(text) : \A j \in 1..i : text[j] = "1"}
             rest == SubSeq(text, Cardinality(ones) + 1, Len(text))
             num  == LittleEndian([i \in 1..Len(rest) |-> IndexOf(Base58Values, rest[i])], 58)
         IN  [ok |-> TRUE, bytes |-> [i \in 1..Cardinality(ones) |-> 0] \o Reverse(num)]

AccountIDLen == 32

\* An account id from decoded bytes.
AccountID(d) ==
    IF d.ok /\ Len(d.bytes) = AccountIDLen THEN [ok |-> TRUE, id |-> d.bytes, err |-> ""]
    ELSE [ok |-> FALSE, id |-> <<>>, err |-> "invalid account id"]

\* A decoder that takes every prefix for one byte.
PrefixOfOneByte(text) ==
    LET d == Base58Decode(text)
    IN  IF ~d.ok THEN [ok |-> FALSE, id |-> <<>>, err |-> "base58 decode failed"]
        ELSE IF Len(d.bytes) \notin {35, 36}
        THEN [ok |-> FALSE, id |-> <<>>, err |-> "invalid address length"]
        ELSE [ok |-> TRUE, err |-> "", id |-> SubSeq(d.bytes, 2, 1 + AccountIDLen)]

\* decodeSS58Address: 35 bytes are prefix, public key, checksum; 36 bytes
\* have a prefix of two bytes; the checksum is not looked at.
DecodeSS58Address(text) ==
    LET d == Base58Decode(text)
        pubkeyStart == IF Len(d.bytes) = 35 THEN 1 ELSE 2
    IN  IF ~d.ok THEN [ok |-> FALSE, id |-> <<>>, err |-> "base58 decode failed"]
        ELSE IF Len(d.bytes) \notin {35, 36}
        THEN [ok |-> FALSE, id |-> <<>>, err |-> "invalid address length"]
        ELSE IF Len(d.bytes) < pubkeyStart + AccountIDLen
        THEN [ok |-> FALSE, id |-> <<>>, err |-> "address too short for public key"]
        ELSE [ok |-> TRUE, err |-> "",
              id |-> SubSeq(d.bytes, pubkeyStart + 1, pubkeyStart + AccountIDLen)]

\* GetBalance, "Handle address conversion".
DecodeAddressNative(address) ==
    LET text == TrimSpace(address)
    IN  IF HasPrefix(text, <<"0", "x">>) THEN AccountID(HexDecodeString(text))
        ELSE IF Len(text) = 64 THEN AccountID(HexDecodeString(text))
        ELSE DecodeSS58Address(text)

\* GetAssetBalance, "Decode address to AccountID".
DecodeAddressAsset(address) ==
    IF HasPrefix(address, <<"0", "x">>) THEN AccountID(HexDecodeString(address))
    ELSE DecodeSS58Address(address)

\* The three forms of the address of the monitored account, and a text
\* that is no address.
BareHexAddress ==
    << "d", "4", "3", "5", "9", "3", "c", "7", "1", "5", "f", "d", "d", "3", "1", "c",
       "6", "1", "1", "4", "1", "a", "b", "d", "0", "4", "a", "9", "9", "f", "d", "6",
       "8", "2", "2", "c", "8", "5", "5", "8", "8", "5", "4", "c", "c", "d", "e", "3",
       "9", "a", "5", "6", "8", "4", "e", "7", "a", "5", "6", "d", "a", "2", "7", "d" >>

HexAddress == <<"0", "x">> \o BareHexAddress

SS58Address ==
    << "5", "G", "r", "w", "v", "a", "E", "F", "5", "z", "X", "b", "2", "6", "F", "z",
       "9", "r", "c", "Q", "p", "D", "W", "S", "5", "7", "C", "t", "E", "R", "H", "p",
       "N", "e", "h", "X", "C", "P", "c", "N", "o", "H", "G", "K", "u", "t", "Q", "Y" >>

\* The address with a blank in front of it.
PaddedAddress == <<" ">> \o HexAddress

NoAddress == <<"n", "o", "n", "e">>

AddressForms == {HexAddress, BareHexAddress, SS58Address, PaddedAddress, NoAddress}

(***************************************************************************)
(* Configuration: config.Load and the Discord client main builds from it.  *)
(***************************************************************************)
ThresholdChoices == {50, 100, 23859}

ConfigInputs ==
    [token : BOOLEAN, guild : BOOLEAN, webhook : BOOLEAN,
     enable_notifications : BOOLEAN, min_change : ThresholdChoices]

Load(inp) ==
    LET useBot == inp.token /\ inp.guild
    IN  [UseDiscordBot |-> useBot,
         DiscordWebhook |-> inp.webhook,
         EnableNotifications |->
             IF ~useBot /\ ~inp.webhook /\ ~inp.token THEN FALSE
             ELSE inp.enable_notifications,
         MinBalanceChangeNotification |-> inp.min_change]

\* main: the client is nil, a webhook client or a bot client; a failed bot
\* start without a webhook switches notifications off.
NewDiscordClient(c, botOk) ==
    IF ~c.EnableNotifications THEN "nil"
    ELSE IF c.UseDiscordBot
         THEN IF botOk THEN "bot" ELSE IF c.DiscordWebhook THEN "webhook" ELSE "nil"
         ELSE IF c.DiscordWebhook THEN "webhook" ELSE "nil"

MainConfig(c, botOk) ==
    [EnableNotifications |->
         c.EnableNotifications /\ ~(c.UseDiscordBot /\ ~botOk /\ ~c.DiscordWebhook),
     MinBalanceChangeNotification |-> c.MinBalanceChangeNotification]

(***************************************************************************)
(* The operator-managed tables and the chain.                              *)
(***************************************************************************)
AccountIds == {1}

\* Table networks: one active network with the Assets pallets, one the
\* operator has switched off.
NetworksTable ==
    << [ID |-> 1, Name |-> "assethub", Active |-> TRUE],
       [ID |-> 2, Name |-> "relay", Active |-> FALSE] >>

NetworkNames == {NetworksTable[i].Name : i \in 1..Len(NetworksTable)}

\* db.GetNetworks: WHERE active = TRUE
GetNetworks(tbl) == SelectSeq(tbl, LAMBDA n : n.Active)

\* db.GetAccounts: WHERE monitor_enabled = TRUE
GetAccounts(tbl) == SelectSeq(tbl, LAMBDA a : a.MonitorEnabled)

Pallets(net) ==
    IF net = "assethub" THEN {"System", "Balances", "Assets", "ForeignAssets"}
    ELSE {"System", "Balances"}

NativeTokens ==
    { [ID |-> 1, network_id |-> 1, token_type |-> "native", token_id |-> <<>>,
       symbol |-> "DOT", decimals |-> 6] }

\* The native token row of the second network, under the id it has.
RelayToken(id) ==
    [ID |-> id, network_id |-> 2, token_type |-> "native", token_id |-> <<>>,
     symbol |-> "KSM", decimals |-> 6]

\* The asset id of the asset the chain has in its Assets pallet.
ChainAssetID == 7

AssetToken ==
    [ID |-> 2, network_id |-> 1, token_type |-> "asset", token_id |-> FormatUint(ChainAssetID),
     symbol |-> "USDT", decimals |-> 6]

\* The same asset, its id written by the operator as the hex of the raw key.
HexAssetToken ==
    [AssetToken EXCEPT !.token_id = <<"0", "x", "0", "7", "0", "0", "0", "0", "0", "0">>]

\* Storage entries of the chain: System.Account is <<free, reserved,
\* miscFrozen>>, an asset account is <<balance>>, a missing entry is <<>>.
\* A key is the account, the network, the pallet and the raw key of the
\* asset.
NoEntry == <<>>

AssetKey == ParseUint32(FormatUint(ChainAssetID)).bytes

ChainKeys ==
    {<<a, n, "System", <<>>>> : a \in AccountIds, n \in NetworkNames}
    \cup {<<a, "assethub", p, AssetKey>> : a \in AccountIds, p \in {"Assets", "ForeignAssets"}}

\* The account of the chain that has the account id: account 1 is the one
\* of the three address forms, 0 stands for any other.
ChainAccount(id) == IF id = HexDecodeString(BareHexAddress).bytes THEN 1 ELSE 0

\* GetStorageLatest: the entry under a key, missing for an account the
\* chain does not know.
Entry(ch, key) == IF key \in DOMAIN ch THEN ch[key] ELSE NoEntry

\* The values a storage entry takes.
ChainValues(k) ==
    IF k[3] = "System"
    THEN {<<50, 0, 0>>, <<40, 10, 0>>, <<23859, 0, 0>>,
          <<100000000, 0, 0>>, <<100000100, 0, 0>>}
    ELSE IF k[3] = "Assets" THEN {NoEntry, <<5000000>>}
    ELSE {NoEntry, <<3000000>>}

ZeroBalance ==
    [Free |-> 0, Reserved |-> 0, MiscFrozen |-> 0, FeeFrozen |-> 0, Bonded |-> 0, Total |-> 0]

\* A Balance whose total leaves the reserved part out.
FreeOnlyBalance(entry) ==
    IF entry = NoEntry THEN ZeroBalance
    ELSE [Free |-> entry[1], Reserved |-> entry[2], MiscFrozen |-> entry[3],
          FeeFrozen |-> 0, Bonded |-> 0, Total |-> entry[1]]

\* GetBalance: the Balance built from the System.Account entry.
NativeBalance(entry) ==
    IF entry = NoEntry THEN ZeroBalance
    ELSE [Free |-> entry[1], Reserved |-> entry[2], MiscFrozen |-> entry[3],
          FeeFrozen |-> 0, Bonded |-> 0, Total |-> entry[1] + entry[2]]

\* GetAssetBalance: the Balance built from an asset account entry.
AssetBalance(entry) ==
    [Free |-> entry[1], Reserved |-> 0, MiscFrozen |-> 0, FeeFrozen |-> 0,
     Bonded |-> 0, Total |-> entry[1]]


(***************************************************************************)
(* State.                                                                  *)
(***************************************************************************)
VARIABLES
    call,            \* the function applied last, its arguments and its result
    cfg,             \* config.Config as main leaves it
    discord,         \* Monitor.discord: "nil", "webhook" or "bot"
    accounts,        \* table accounts
    networks,        \* table networks
    network_tokens,  \* table network_tokens
    balances,        \* table balances
    balance_history, \* table balance_history
    clock,           \* NOW() of the database
    chain,           \* storage of the chains
    changes,         \* chain changes so far
    clients,         \* Manager.clients: network name -> connection, 0 when absent
    conns,           \* connections created so far: conns[c] is the network of c
    ctxDone,         \* the context main cancels
    th,              \* the goroutines: position and local variables
    observed,        \* Balance last reconciled per (account, network, token)
    failures         \* connection attempts and chain calls that failed so far

vars == <<call, cfg, discord, accounts, networks, network_tokens, balances, balance_history, clock,
          chain, changes, clients, conns, ctxDone, th, observed, failures>>

\* Two goroutines running StartBalanceMonitor.
TwoBalanceMonitors == {"balance", "balance2"}

\* main starts one goroutine running StartBalanceMonitor.
BalanceMonitors == {"balance"}

NoObs == [seq |-> 0]

\* A Go map: make(map), and m[k] = m[k] + v with a missing m[k] as 0.
EmptyMap == [k \in {} |-> 0]

MapPut(m, k, v) == [x \in DOMAIN m \cup {k} |-> IF x = k THEN v ELSE m[x]]

MapAdd(m, k, v) == MapPut(m, k, IF k \in DOMAIN m THEN m[k] + v ELSE v)

\* &AccountBalance{...} of checkBalances.
NewAccountBalance ==
    [TokenBalances |-> <<>>, TotalsByToken |-> EmptyMap, ChangesByToken |-> EmptyMap]

\* No summary was built in the cycle.
NoSummary == [built |-> FALSE]

NewThread(pc) ==
    [pc |-> pc, cycles |-> 0, epoch |-> 0, panicAt |-> 0, accs |-> <<>>, nets |-> <<>>, ai |-> 0, ni |-> 0,
     assets |-> <<>>, op |-> "", tok |-> AssetToken, calls |-> <<>>, api |-> 0,
     fetched |-> ZeroBalance, prev |-> ZeroBalance, exists |-> FALSE, last |-> NoObs,
     visited |-> {}, failed |-> {}, undelivered |-> {}, ret |-> NoObs, got |-> NoObs,
     accountID |-> <<>>, accountBalances |-> EmptyMap, portfolioTotalsByToken |-> EmptyMap,
     portfolioChangesByToken |-> EmptyMap, summary |-> NoSummary]

\* main is past the initial discovery and has started the goroutines.
Started == th["main"].pc \in {"wait", "stopped"}

CurAccount(s) == s.accs[s.ai]
CurNetwork(s) == s.nets[s.ni]

\* The (account, network, token) the goroutine is at.
Triple(s) == <<CurAccount(s).ID, CurNetwork(s).ID, s.tok.ID>>

(***************************************************************************)
(* Table balances: UNIQUE KEY (account_id, network_id, network_token_id).  *)
(***************************************************************************)
BalanceRows(rows, a, n, t) ==
    {r \in rows : r.account_id = a /\ r.network_id = n /\ r.network_token_id = t}

BalanceRow(a, n, t, b, now) ==
    [account_id |-> a, network_id |-> n, network_token_id |-> t,
     free |-> BigString(b.Free), reserved |-> BigString(b.Reserved),
     misc_frozen |-> BigString(b.MiscFrozen), fee_frozen |-> BigString(b.FeeFrozen),
     bonded |-> BigString(b.Bonded), total |-> BigString(b.Total),
     last_updated |-> now]

\* INSERT INTO balances: refused when the key is taken.
InsertBalance(rows, a, n, t, b, now) ==
    IF BalanceRows(rows, a, n, t) # {} THEN rows
    ELSE rows \cup {BalanceRow(a, n, t, b, now)}

\* UPDATE balances SET ..., last_updated = NOW() WHERE the key matches.
UpdateBalance(rows, a, n, t, b, now) ==
    {IF r \in BalanceRows(rows, a, n, t) THEN BalanceRow(a, n, t, b, now) ELSE r : r \in rows}

\* The Balance parsed from a row of the SELECT in processTokenBalance.
ScanBalance(r) ==
    [Free |-> SetString(r.free), Reserved |-> SetString(r.reserved),
     MiscFrozen |-> SetString(r.misc_frozen), FeeFrozen |-> SetString(r.fee_frozen),
     Bonded |-> SetString(r.bonded), Total |-> SetString(r.total)]

\* balanceExists that is never set.
BalanceNeverExists(rows, a, n, t) == FALSE

\* balanceExists := err == nil
BalanceExists(rows, a, n, t) == BalanceRows(rows, a, n, t) # {}

PreviousBalance(rows, a, n, t) ==
    IF BalanceExists(rows, a, n, t)
    THEN ScanBalance(CHOOSE r \in BalanceRows(rows, a, n, t) : TRUE)
    ELSE ZeroBalance

\* The test inside "if change.Cmp(0) != 0" that guards the notification.
ShouldNotify(change, decimals, threshold, notify, client) ==
    /\ MeetsThreshold(change, decimals, threshold)
    /\ notify
    /\ client # "nil"

(***************************************************************************)
(* checkBalances: the loops over accounts, networks and asset tokens.      *)
(***************************************************************************)
\* The next (account, network) pair, or the end of the loops: every
\* monitored account was counted, the summary is next.
Advance(s) ==
    IF s.ni < Len(s.nets)
    THEN [s EXCEPT !.ni = @ + 1, !.op = "native", !.assets = <<>>, !.calls = <<>>,
                   !.pc = "getClient",
                   !.visited = @ \cup {<<s.accs[s.ai].ID, s.nets[s.ni + 1].ID>>}]
    ELSE IF s.ai < Len(s.accs)
    THEN [s EXCEPT !.ai = @ + 1, !.ni = 1, !.op = "native", !.assets = <<>>,
                   !.calls = <<>>, !.pc = "getClient",
                   !.visited = @ \cup {<<s.accs[s.ai + 1].ID, s.nets[1].ID>>}]
    ELSE [s EXCEPT !.pc = "summary", !.calls = <<>>, !.assets = <<>>]

\* The next asset token of the network, or the next pair.
NextAsset(s) ==
    IF s.assets = <<>> THEN Advance(s)
    ELSE [s EXCEPT !.op = "asset", !.tok = Head(s.assets), !.assets = Tail(s.assets),
                   !.calls = <<>>, !.pc = "getClient"]

\* The rows of the asset query, in id order, without those whose token_id
\* is NULL or empty.
RECURSIVE SortById(_)
SortById(S) ==
    IF S = {} THEN <<>>
    ELSE LET x == CHOOSE r \in S : \A q \in S : r.ID <= q.ID
         IN  <<x>> \o SortById(S \ {x})

AssetTokens(tokens, netId) ==
    SortById({r \in tokens : r.network_id = netId
                              /\ r.token_type \in {"asset", "foreign_asset"}
                              /\ r.token_id # <<>>})

\* checkBalances up to the first GetBalance.
BeginCycle(s, accs, nets) ==
    IF Len(accs) = 0
    THEN [s EXCEPT !.cycles = @ + 1, !.pc = "wait", !.visited = {}, !.failed = {},
                   !.undelivered = {}, !.ret = NoObs, !.got = NoObs,
                   !.accountBalances = EmptyMap, !.portfolioTotalsByToken = EmptyMap,
                   !.portfolioChangesByToken = EmptyMap, !.summary = NoSummary]
    ELSE IF Len(nets) = 0
    THEN [s EXCEPT !.cycles = @ + 1, !.pc = "summary", !.visited = {}, !.failed = {},
                   !.undelivered = {}, !.ret = NoObs, !.got = NoObs,
                   !.accountBalances = EmptyMap, !.portfolioTotalsByToken = EmptyMap,
                   !.portfolioChangesByToken = EmptyMap, !.summary = NoSummary]
    ELSE [s EXCEPT !.cycles = @ + 1, !.accs = accs, !.nets = nets, !.ai = 1, !.ni = 1,
                   !.op = "native", !.assets = <<>>, !.calls = <<>>, !.pc = "getClient",
                   !.visited = {<<accs[1].ID, nets[1].ID>>}, !.failed = {},
                   !.undelivered = {}, !.ret = NoObs, !.got = NoObs,
                   !.accountBalances = EmptyMap, !.portfolioTotalsByToken = EmptyMap,
                   !.portfolioChangesByToken = EmptyMap, !.summary = NoSummary]

\* StartBalanceMonitor: "Run immediately".
BalStart(t) ==
    /\ Started
    /\ th[t].pc = "start"
    /\ th' = [th EXCEPT ![t] = BeginCycle([@ EXCEPT !.epoch = changes],
                                          GetAccounts(accounts), GetNetworks(networks))]
    /\ UNCHANGED <<call, cfg, discord, accounts, networks, network_tokens, balances, balance_history,
                   clock, chain, changes, clients, conns, ctxDone, observed, failures>>

\* StartBalanceMonitor: case <-ticker.C
BalTick(t) ==
    /\ th[t].pc = "wait"
    /\ th[t].cycles < MaxCycles
    /\ th' = [th EXCEPT ![t] = BeginCycle([@ EXCEPT !.epoch = changes],
                                          GetAccounts(accounts), GetNetworks(networks))]
    /\ UNCHANGED <<call, cfg, discord, accounts, networks, network_tokens, balances, balance_history,
                   clock, chain, changes, clients, conns, ctxDone, observed, failures>>

\* StartBalanceMonitor: case <-ctx.Done()
BalStop(t) ==
    /\ th[t].pc = "wait"
    /\ ctxDone
    /\ th' = [th EXCEPT ![t].pc = "stopped"]
    /\ UNCHANGED <<call, cfg, discord, accounts, networks, network_tokens, balances, balance_history,
                   clock, chain, changes, clients, conns, ctxDone, observed, failures>>

(***************************************************************************)
(* DiscoverNetworks: the loop over the networks.                           *)
(***************************************************************************)
\* The goroutines that run DiscoverNetworks: main (the initial discovery)
\* and the network refresh loop.
Discoverers == {"main", "refresh"}

\* The end of DiscoverNetworks: main goes on to start the goroutines, the
\* refresh loop goes back to its select.
DiscEnd(s) == [s EXCEPT !.pc = "wait", !.calls = <<>>]

\* The head of the loop: "case <-ctx.Done(): return ctx.Err()", else the
\* next network.
DiscNext(s, done) ==
    IF s.ni < Len(s.nets) /\ ~done
    THEN [s EXCEPT !.ni = @ + 1, !.calls = <<>>, !.pc = "getClient",
                   !.visited = @ \cup {<<0, s.nets[s.ni + 1].ID>>}]
    ELSE DiscEnd(s)

DiscBegin(s, nets, done) ==
    DiscNext([s EXCEPT !.cycles = @ + 1, !.nets = nets, !.ni = 0, !.op = "discover",
                       !.visited = {}, !.failed = {}], done)

\* The calls discoverAssets and discoverForeignAssets make on a network
\* whose metadata lists the pallets: metadata, key listing, and the
\* Metadata entry of every key listed (asset 7 in Assets, none in
\* ForeignAssets).
DiscoveryCalls(net) ==
    (IF "Assets" \in Pallets(net)
     THEN <<"Assets.GetMetadataLatest", "Assets.GetKeysLatest", "Assets.Metadata">>
     ELSE <<>>)
    \o (IF "ForeignAssets" \in Pallets(net)
        THEN <<"ForeignAssets.GetMetadataLatest", "ForeignAssets.GetKeysLatest">>
        ELSE <<>>)

IsForeignCall(c) == c \in {"ForeignAssets.GetMetadataLatest", "ForeignAssets.GetKeysLatest"}

\* INSERT INTO network_tokens ... ON DUPLICATE KEY UPDATE symbol, name,
\* decimals (UNIQUE KEY network_id, token_type, token_id).
UpsertToken(tokens, netId, type, id, symbol, decimals) ==
    LET same == {r \in tokens : r.network_id = netId /\ r.token_type = type /\ r.token_id = id}
        nextId == 1 + Cardinality(tokens)
    IN  IF same = {}
        THEN tokens \cup {[ID |-> nextId, network_id |-> netId, token_type |-> type,
                           token_id |-> id, symbol |-> symbol, decimals |-> decimals]}
        ELSE {IF r \in same THEN [r EXCEPT !.symbol = symbol, !.decimals = decimals] ELSE r
              : r \in tokens}

(***************************************************************************)
(* Manager.getClient, for the goroutine t and the network it is at.        *)
(***************************************************************************)
\* A connection attempt or a call to the network the goroutine is at failed.
Failed(s) == [s EXCEPT !.failed = @ \cup {CurNetwork(s).Name}]

\* A caller that gives up its loop when getClient or the metadata call
\* fails.
FailAborts(s, done) ==
    [s EXCEPT !.pc = IF s.op = "discover" THEN "wait" ELSE "summary", !.calls = <<>>,
              !.assets = <<>>]

\* What the caller does when getClient or the metadata call fails.
Fail(s, done) ==
    IF s.op = "native" THEN Advance(s)
    ELSE IF s.op = "asset" THEN NextAsset(s)
    ELSE DiscNext(s, done)

\* The calls a caller makes once it has the connection; the first one is
\* in flight from then on.
FirstCalls(s) ==
    IF s.op = "native" THEN <<"GetMetadataLatest", "GetStorageLatest">>
    ELSE <<"GetMetadataLatest">>

\* RLock; client, exists := m.clients[networkName]; RUnlock
GetClientLookup(t) ==
    /\ th[t].pc = "getClient"
    /\ LET s == th[t]
           c == clients[CurNetwork(s).Name]
       IN  th' = [th EXCEPT ![t] =
                    IF c # 0
                    THEN [s EXCEPT !.api = c, !.calls = FirstCalls(s), !.pc = "rpc"]
                    ELSE [s EXCEPT !.pc = "connect"]]
    /\ UNCHANGED <<call, cfg, discord, accounts, networks, network_tokens, balances, balance_history,
                   clock, chain, changes, clients, conns, ctxDone, observed, failures>>

\* gsrpc.NewSubstrateAPI(url) succeeds: a new connection.
Connect(t) ==
    /\ th[t].pc = "connect"
    /\ conns' = Append(conns, CurNetwork(th[t]).Name)
    /\ th' = [th EXCEPT ![t].api = Len(conns) + 1, ![t].pc = "insert"]
    /\ UNCHANGED <<call, cfg, discord, accounts, networks, network_tokens, balances, balance_history,
                   clock, chain, changes, clients, ctxDone, observed, failures>>

\* gsrpc.NewSubstrateAPI(url) fails: getClient returns the error.
ConnectFail(t) ==
    /\ th[t].pc = "connect"
    /\ failures < MaxFailures
    /\ failures' = failures + 1
    /\ th' = [th EXCEPT ![t] = Fail(Failed(@), ctxDone)]
    /\ UNCHANGED <<call, cfg, discord, accounts, networks, network_tokens, balances, balance_history,
                   clock, chain, changes, clients, conns, ctxDone, observed>>

\* Lock; m.clients[networkName] = api; Unlock
InsertClient(t) ==
    /\ th[t].pc = "insert"
    /\ clients' = [clients EXCEPT ![CurNetwork(th[t]).Name] = th[t].api]
    /\ th' = [th EXCEPT ![t].calls = FirstCalls(th[t]), ![t].pc = "rpc"]
    /\ UNCHANGED <<call, cfg, discord, accounts, networks, network_tokens, balances, balance_history,
                   clock, chain, changes, conns, ctxDone, observed, failures>>

(***************************************************************************)
(* Chain RPC calls.  A goroutine at "rpc" has the call Head(calls) in      *)
(* flight on the connection api of its network.                            *)
(***************************************************************************)
\* CreateStorageKey with the account id the caller decoded.
StorageKey(s, pallet, raw) ==
    <<ChainAccount(s.accountID), CurNetwork(s).Name, pallet, raw>>

\* checkBalances after GetBalance returned b: the native token row, then
\* processTokenBalance.
AfterNative(s, b, tokens) ==
    LET nat == {r \in tokens : r.network_id = CurNetwork(s).ID /\ r.token_type = "native"}
    IN  IF nat = {} THEN Advance(s)
        ELSE [s EXCEPT !.fetched = b, !.tok = CHOOSE r \in nat : TRUE, !.calls = <<>>,
                       !.pc = "ptRead"]

\* A GetBalance that returns an error when the entry is missing.
MissingIsError(s, entry, tokens) ==
    IF entry = NoEntry THEN Advance(s) ELSE AfterNative(s, NativeBalance(entry), tokens)

\* GetStorageLatest of System.Account returned without error: GetBalance
\* returns the Balance of the entry, missing or not, and a nil error.
GetBalanceReturn(s, entry, tokens) == AfterNative(s, NativeBalance(entry), tokens)

\* checkBalances after GetAssetBalance returned b: a zero total is skipped.
AfterAsset(s, b) ==
    LET r == [s EXCEPT !.ret = [seq |-> 1, triple |-> Triple(s), balance |-> b,
                                err |-> "", id |-> s.accountID,
                                raw |-> ParseUint32(s.tok.token_id).bytes]]
    IN  IF b.Total = 0 THEN NextAsset(r)
        ELSE [r EXCEPT !.fetched = b, !.calls = <<>>, !.pc = "ptRead"]

\* GetAssetBalance returns an error: checkBalances goes on with the next
\* asset.
AssetError(s, err) ==
    NextAsset([s EXCEPT !.ret = [seq |-> 1, triple |-> Triple(s), balance |-> ZeroBalance,
                                 err |-> err, id |-> s.accountID, raw |-> <<>>]])

\* A GetAssetBalance without the second try.
NoForeign(s) == AfterAsset(s, ZeroBalance)

\* GetAssetBalance: "Try ForeignAssets pallet", else the zero balance.
TryForeign(s) ==
    IF "ForeignAssets" \in Pallets(CurNetwork(s).Name)
    THEN [s EXCEPT !.calls = <<"ForeignAssets.Account">>]
    ELSE AfterAsset(s, ZeroBalance)

\* GetBalance after the metadata: the address is decoded, an error goes
\* back to checkBalances, which goes on with the next network.
NativeArguments(s) ==
    LET d == DecodeAddressNative(CurAccount(s).Address)
    IN  IF d.ok
        THEN [s EXCEPT !.calls = Tail(@), !.accountID = d.id,
                       !.got = [seq |-> 1, ok |-> TRUE, id |-> d.id]]
        ELSE Advance([s EXCEPT !.accountID = <<>>,
                               !.got = [seq |-> 1, ok |-> FALSE, id |-> <<>>]])

\* GetAssetBalance after the metadata: the address is decoded, the asset
\* id is parsed, then "Try Assets pallet".
AssetArguments(s) ==
    LET d == DecodeAddressAsset(CurAccount(s).Address)
        r == [s EXCEPT !.accountID = d.id]
    IN  IF ~d.ok THEN AssetError(r, "address")
        ELSE IF ~ParseUint32(s.tok.token_id).ok THEN AssetError(r, "invalid asset ID")
        ELSE IF "Assets" \in Pallets(CurNetwork(s).Name)
        THEN [r EXCEPT !.calls = <<"Assets.Account">>]
        ELSE TryForeign(r)

\* DiscoverNetworks goes on with the calls left, or to the next network.
Continue(s, calls, done) ==
    IF calls = <<>> THEN DiscNext(s, done) ELSE [s EXCEPT !.calls = calls]

\* The caller after the call in flight returned without error.
ReturnOk(s, ch, tokens, done) ==
    LET c == Head(s.calls)
    IN  IF s.op = "native"
        THEN IF c = "GetMetadataLatest" THEN NativeArguments(s)
             ELSE GetBalanceReturn(s, Entry(ch, StorageKey(s, "System", <<>>)), tokens)
        ELSE IF s.op = "asset"
        THEN IF c = "GetMetadataLatest" THEN AssetArguments(s)
             ELSE IF c = "Assets.Account"
             THEN LET e == Entry(ch, StorageKey(s, "Assets", ParseUint32(s.tok.token_id).bytes))
                  IN  IF e # NoEntry THEN AfterAsset(s, AssetBalance(e)) ELSE TryForeign(s)
             ELSE LET e == Entry(ch, StorageKey(s, "ForeignAssets",
                                                ParseUint32(s.tok.token_id).bytes))
                  IN  AfterAsset(s, IF e # NoEntry THEN AssetBalance(e) ELSE ZeroBalance)
        ELSE IF c = "GetMetadataLatest"
             THEN Continue(s, DiscoveryCalls(CurNetwork(s).Name), done)
             ELSE Continue(s, Tail(s.calls), done)

\* The caller after the call in flight returned an error.
ReturnErr(s, done) ==
    LET c == Head(s.calls)
    IN  IF c = "GetMetadataLatest" THEN Fail(s, done)
        ELSE IF s.op = "native" THEN Advance(s)
        ELSE IF s.op = "asset"
        THEN IF c = "Assets.Account" THEN TryForeign(s) ELSE AfterAsset(s, ZeroBalance)
        ELSE IF c = "Assets.Metadata" THEN Continue(s, Tail(s.calls), done)
        ELSE IF IsForeignCall(c) THEN DiscNext(s, done)
        ELSE Continue(s, SelectSeq(s.calls, IsForeignCall), done)

\* discoverAssets stores the asset with the metadata it got: the decoded
\* entry, or the placeholder of getAssetMetadata.
StoreAsset(tokens, s, ok) ==
    IF s.op = "discover" /\ Head(s.calls) = "Assets.Metadata"
    THEN IF ok THEN UpsertToken(tokens, CurNetwork(s).ID, "asset",
                                FormatUint(ChainAssetID), "USDT", 6)
         ELSE UpsertToken(tokens, CurNetwork(s).ID, "asset",
                          FormatUint(ChainAssetID), "ASSET7", 10)
    ELSE tokens

RpcReturn(t) ==
    /\ th[t].pc = "rpc"
    /\ network_tokens' = StoreAsset(network_tokens, th[t], TRUE)
    /\ th' = [th EXCEPT ![t] = ReturnOk(@, chain, network_tokens, ctxDone)]
    /\ UNCHANGED <<call, cfg, discord, accounts, networks, balances, balance_history, clock, chain,
                   changes, clients, conns, ctxDone, observed, failures>>

RpcFail(t) ==
    /\ th[t].pc = "rpc"
    /\ failures < MaxFailures
    /\ failures' = failures + 1
    /\ network_tokens' = StoreAsset(network_tokens, th[t], FALSE)
    /\ th' = [th EXCEPT ![t] = ReturnErr(Failed(@), ctxDone)]
    /\ UNCHANGED <<call, cfg, discord, accounts, networks, balances, balance_history, clock, chain,
                   changes, clients, conns, ctxDone, observed>>

(***************************************************************************)
(* processTokenBalance.                                                    *)
(***************************************************************************)
\* checkBalances after processTokenBalance: the asset tokens of the
\* network after its native token, the next asset after an asset.
AfterProcess(s, tokens) ==
    IF s.op = "native"
    THEN NextAsset([s EXCEPT !.assets = AssetTokens(tokens, CurNetwork(s).ID)])
    ELSE NextAsset(s)

\* A monitor that gives up the cycle when SendBalanceChangeNotification
\* returns an error.
SendErrorEndsCycle(s, sendOk, tokens) ==
    IF sendOk THEN AfterProcess(s, tokens)
    ELSE [s EXCEPT !.undelivered = @ \cup {Triple(s)}, !.pc = "summary",
                   !.calls = <<>>, !.assets = <<>>]

\* processTokenBalance after SendBalanceChangeNotification returned: the
\* error is logged.
AfterSend(s, sendOk, tokens) ==
    AfterProcess([s EXCEPT !.undelivered = IF sendOk THEN @ ELSE @ \cup {Triple(s)}],
                 tokens)

\* The kind checkBalances passes to processTokenBalance: "native" for
\* the native token, for an asset "foreign_asset" when the name of the
\* network contains "foreign" and "asset" otherwise.
TokenType(s) ==
    IF s.op = "native" THEN "native"
    ELSE IF Contains(Chars(CurNetwork(s).Name), Chars("foreign")) THEN "foreign_asset"
    ELSE "asset"

\* A rollup that stores the total and the change of the token instead of
\* adding them.
RollupOverwrites(s, change) ==
    LET id  == CurAccount(s).ID
        ab  == IF id \in DOMAIN s.accountBalances THEN s.accountBalances[id]
               ELSE NewAccountBalance
        tokenBal == [Network |-> CurNetwork(s).Name, Balance |-> s.fetched.Total,
                     Symbol |-> s.tok.symbol, Decimals |-> s.tok.decimals,
                     Change |-> change, TokenType |-> TokenType(s)]
    IN  [s EXCEPT
           !.accountBalances =
               MapPut(@, id,
                      [TokenBalances  |-> Append(ab.TokenBalances, tokenBal),
                       TotalsByToken  |-> MapPut(ab.TotalsByToken, s.tok.symbol, s.fetched.Total),
                       ChangesByToken |-> MapPut(ab.ChangesByToken, s.tok.symbol, change)]),
           !.portfolioTotalsByToken = MapPut(@, s.tok.symbol, s.fetched.Total),
           !.portfolioChangesByToken = MapPut(@, s.tok.symbol, change)]

\* processTokenBalance, "Store token balance info" to "Update portfolio
\* totals": the balance is appended to the balances of the account and
\* added to the totals and changes of its symbol.
Rollup(s, change) ==
    LET id  == CurAccount(s).ID
        ab  == IF id \in DOMAIN s.accountBalances THEN s.accountBalances[id]
               ELSE NewAccountBalance
        tokenBal == [Network |-> CurNetwork(s).Name, Balance |-> s.fetched.Total,
                     Symbol |-> s.tok.symbol, Decimals |-> s.tok.decimals,
                     Change |-> change, TokenType |-> TokenType(s)]
    IN  [s EXCEPT
           !.accountBalances =
               MapPut(@, id,
                      [TokenBalances  |-> Append(ab.TokenBalances, tokenBal),
                       TotalsByToken  |-> MapAdd(ab.TotalsByToken, s.tok.symbol, s.fetched.Total),
                       ChangesByToken |-> MapAdd(ab.ChangesByToken, s.tok.symbol, change)]),
           !.portfolioTotalsByToken = MapAdd(@, s.tok.symbol, s.fetched.Total),
           !.portfolioChangesByToken = MapAdd(@, s.tok.symbol, change)]

\* sendDailySummary: the totals and changes of every symbol, and of every
\* account its balances, totals and changes.
DailySummary(s, tokens) ==
    [built |-> TRUE,
     TotalAccounts |-> Len(s.accs),
     TotalsByToken |->
        [sym \in DOMAIN s.portfolioTotalsByToken |->
            [Symbol |-> sym,
             Total  |-> s.portfolioTotalsByToken[sym],
             Change |-> IF sym \in DOMAIN s.portfolioChangesByToken
                        THEN s.portfolioChangesByToken[sym] ELSE 0,
             Decimals |-> LET d == {r.decimals : r \in {q \in tokens : q.symbol = sym}}
                          IN  IF d = {} \/ d = {0} THEN 10 ELSE CHOOSE x \in d : x # 0]],
     AccountSummaries |->
        [id \in {s.accs[i].ID : i \in 1..Len(s.accs)} |->
            IF id \in DOMAIN s.accountBalances THEN s.accountBalances[id]
            ELSE NewAccountBalance]]

\* SELECT free, ..., total FROM balances WHERE the triple
PtRead(t) ==
    /\ th[t].pc = "ptRead"
    /\ LET s == th[t]
           k == Triple(s)
       IN  th' = [th EXCEPT ![t].prev = PreviousBalance(balances, k[1], k[2], k[3]),
                            ![t].exists = BalanceExists(balances, k[1], k[2], k[3]),
                            ![t].pc = "ptWrite"]
    /\ UNCHANGED <<call, cfg, discord, accounts, networks, network_tokens, balances, balance_history,
                   clock, chain, changes, clients, conns, ctxDone, observed, failures>>

\* change := balance.Total - previousBalance.Total; UPDATE or INSERT; the
\* notification; then checkBalances goes on to the asset tokens.
PtWrite(t) ==
    /\ th[t].pc = "ptWrite"
    /\ balance_history' = balance_history
    /\ \E sendOk \in BOOLEAN :
       LET s == th[t]
           k == Triple(s)
           change == s.fetched.Total - s.prev.Total
           rows == IF s.exists
                   THEN UpdateBalance(balances, k[1], k[2], k[3], s.fetched, clock)
                   ELSE InsertBalance(balances, k[1], k[2], k[3], s.fetched, clock)
           notified == /\ change # 0
                       /\ ShouldNotify(change, s.tok.decimals,
                                       cfg.MinBalanceChangeNotification,
                                       CurAccount(s).DiscordNotify, discord)
           obs == [seq |-> 1, triple |-> k, fetched |-> s.fetched,
                   before |-> s.prev.Total, after |-> s.fetched.Total,
                   change |-> change, decimals |-> s.tok.decimals,
                   notify |-> CurAccount(s).DiscordNotify, notified |-> notified,
                   repeated |-> observed[k] = s.fetched,
                   rowsBefore |-> BalanceRows(balances, k[1], k[2], k[3]),
                   rowsAfter |-> BalanceRows(rows, k[1], k[2], k[3]),
                   appended |-> Len(balance_history') - Len(balance_history),
                   tokenType |-> TokenType(s)]
           s2 == [Rollup(s, change) EXCEPT !.last = obs]
       IN  /\ notified \/ sendOk
           /\ balances' = rows
           /\ observed' = [observed EXCEPT ![k] = s.fetched]
           /\ th' = [th EXCEPT ![t] = AfterSend(s2, sendOk, network_tokens)]
    /\ clock' = clock + 1
    /\ UNCHANGED <<call, cfg, discord, accounts, networks, network_tokens, chain, changes, clients,
                   conns, ctxDone, failures>>

\* sendDailySummary at the end of checkBalances: it reads the tables and
\* sends; without a client it returns, and an error of the send is logged.
Summary(t) ==
    /\ th[t].pc = "summary"
    /\ \E sendOk \in BOOLEAN :
          /\ discord = "nil" => sendOk
          /\ th' = [th EXCEPT ![t].pc = "wait", ![t].undelivered = {},
                               ![t].summary = IF discord = "nil" THEN NoSummary
                                              ELSE DailySummary(th[t], network_tokens),
                               ![t].accountBalances = EmptyMap,
                               ![t].portfolioTotalsByToken = EmptyMap,
                               ![t].portfolioChangesByToken = EmptyMap]
    /\ UNCHANGED <<call, cfg, discord, accounts, networks, network_tokens, balances,
                   balance_history, clock, chain, changes, clients, conns, ctxDone,
                   observed, failures>>

(***************************************************************************)
(* The goroutines of main.                                                 *)
(***************************************************************************)
\* The validator and bounty monitors: their checks do nothing yet.
StubMonitors == {"validator", "bounty"}

Threads == BalanceMonitors \cup Discoverers \cup StubMonitors

\* main: networkMgr.DiscoverNetworks(ctx), before any goroutine is started.
MainDiscover ==
    /\ th["main"].pc = "init"
    /\ th' = [th EXCEPT !["main"] = DiscBegin(@, GetNetworks(networks), ctxDone)]
    /\ UNCHANGED <<call, cfg, discord, accounts, networks, network_tokens, balances, balance_history,
                   clock, chain, changes, clients, conns, ctxDone, observed, failures>>

\* The network refresh loop: case <-ticker.C
RefreshTick ==
    /\ Started
    /\ th["refresh"].pc = "wait"
    /\ th["refresh"].cycles < MaxRefreshes
    /\ th' = [th EXCEPT !["refresh"] = DiscBegin(@, GetNetworks(networks), ctxDone)]
    /\ UNCHANGED <<call, cfg, discord, accounts, networks, network_tokens, balances, balance_history,
                   clock, chain, changes, clients, conns, ctxDone, observed, failures>>

\* The network refresh loop: case <-ctx.Done()
RefreshStop ==
    /\ Started
    /\ th["refresh"].pc = "wait"
    /\ ctxDone
    /\ th' = [th EXCEPT !["refresh"].pc = "stopped"]
    /\ UNCHANGED <<call, cfg, discord, accounts, networks, network_tokens, balances, balance_history,
                   clock, chain, changes, clients, conns, ctxDone, observed, failures>>

\* StartValidatorMonitor, StartBountyMonitor: "Run immediately" and
\* case <-ticker.C run checkValidators, checkBounties, which read and write
\* nothing.
StubTick(t) ==
    /\ Started
    /\ th[t].pc = "wait"
    /\ th' = th
    /\ UNCHANGED <<call, cfg, discord, accounts, networks, network_tokens, balances, balance_history,
                   clock, chain, changes, clients, conns, ctxDone, observed, failures>>

\* case <-ctx.Done()
StubStop(t) ==
    /\ Started
    /\ th[t].pc = "wait"
    /\ ctxDone
    /\ th' = [th EXCEPT ![t].pc = "stopped"]
    /\ UNCHANGED <<call, cfg, discord, accounts, networks, network_tokens, balances, balance_history,
                   clock, chain, changes, clients, conns, ctxDone, observed, failures>>

\* A goroutine without a deferred recover.
NoRecover(t) == FALSE

\* The goroutines main starts with "defer func() { recover() }()"; the main
\* goroutine itself has none.
Recovers(t) == t \in BalanceMonitors \cup StubMonitors \cup {"refresh"}

\* A panic in the goroutine t: recovered at the top of the goroutine, which
\* then returns; unrecovered, it ends the process.
PanicOutcome(T, t, now) ==
    IF Recovers(t)
    THEN [T EXCEPT ![t].pc = "panicked", ![t].panicAt = now, ![t].calls = <<>>]
    ELSE [u \in DOMAIN T |-> [T[u] EXCEPT !.pc = "crashed", !.calls = <<>>]]

\* Where a goroutine can panic: handling the result of a chain call, or in
\* the check of a validator or bounty iteration.
CanPanic(t) ==
    IF t \in StubMonitors THEN Started /\ th[t].pc = "wait" ELSE th[t].pc = "rpc"

Panic(t) ==
    /\ CanPanic(t)
    /\ Cardinality({u \in Threads : th[u].pc \in {"panicked", "crashed"}}) < MaxPanics
    /\ th' = PanicOutcome(th, t, clock)
    /\ UNCHANGED <<call, cfg, discord, accounts, networks, network_tokens, balances, balance_history,
                   clock, chain, changes, clients, conns, ctxDone, observed, failures>>

\* A panic inside processTokenBalance, once per goroutine: its deferred
\* recover logs it and processTokenBalance returns without having stored
\* the balance; checkBalances goes on with the next token.
ProcessPanic(t) ==
    /\ th[t].pc \in {"ptRead", "ptWrite"}
    /\ th[t].panicAt = 0
    /\ th' = [th EXCEPT ![t] = AfterProcess([@ EXCEPT !.panicAt = clock], network_tokens)]
    /\ UNCHANGED <<call, cfg, discord, accounts, networks, network_tokens, balances, balance_history,
                   clock, chain, changes, clients, conns, ctxDone, observed, failures>>

\* The signal goroutine: cancel()
Cancel ==
    /\ ~ctxDone
    /\ ctxDone' = TRUE
    /\ UNCHANGED <<call, cfg, discord, accounts, networks, network_tokens, balances, balance_history,
                   clock, chain, changes, clients, conns, th, observed, failures>>

(***************************************************************************)
(* The chains: a storage entry changes.  A cycle reads every entry once,   *)
(* so a change during a cycle is seen as a change before or after it;      *)
(* changes are taken between the cycles.  The storage of a network that    *)
(* is not active is never read.                                            *)
(***************************************************************************)
ChainChange(k, v) ==
    /\ changes < MaxChainChanges
    /\ \A t \in BalanceMonitors :
           th[t].pc \in {"start", "wait", "stopped", "panicked", "crashed"}
    /\ \E i \in 1..Len(networks) : networks[i].Name = k[2] /\ networks[i].Active
    /\ chain[k] # v
    /\ chain' = [chain EXCEPT ![k] = v]
    /\ changes' = changes + 1
    /\ UNCHANGED <<call, cfg, discord, accounts, networks, network_tokens, balances, balance_history,
                   clock, clients, conns, ctxDone, th, observed, failures>>

(***************************************************************************)
(* Specifications.                                                         *)
(***************************************************************************)
\* The ids of the rows of table accounts.
AccountRows == {1, 2}

Triples == AccountRows \X {1, 2} \X {1, 2, 3}

NeverSeen == [ZeroBalance EXCEPT !.Total = -1]

AccountsWith(notify, address) ==
    << [ID |-> 1, Address |-> address, MonitorEnabled |-> TRUE, DiscordNotify |-> notify] >>

AccountsTable(notify) == AccountsWith(notify, HexAddress)

\* No function applied yet.
NoCall == [fn |-> "", arg |-> <<>>, ret |-> <<>>, done |-> FALSE]

InitCommon ==
    /\ balances = {}
    /\ balance_history = <<>>
    /\ clock = 1
    /\ changes = 0
    /\ clients = [n \in NetworkNames |-> 0]
    /\ conns = <<>>
    /\ ctxDone = FALSE
    /\ observed = [k \in Triples |-> NeverSeen]
    /\ failures = 0

\* A webhook and the defaults of config.Load.
DefaultInputs ==
    [token |-> FALSE, guild |-> FALSE, webhook |-> TRUE, enable_notifications |-> TRUE,
     min_change |-> 100]

\* The process at the initial network discovery, with the default
\* threshold and a webhook client; the account holds the native token of
\* both networks and the asset.
AtDiscovery ==
    /\ InitCommon
    /\ chain = [k \in ChainKeys |->
                  IF k[3] = "System" THEN <<50, 0, 0>>
                  ELSE IF k[3] = "Assets" THEN <<5000000>> ELSE NoEntry]
    /\ cfg = MainConfig(Load(DefaultInputs), TRUE)
    /\ discord = NewDiscordClient(Load(DefaultInputs), TRUE)
    /\ accounts = AccountsTable(TRUE)
    /\ networks = NetworksTable
    /\ network_tokens = NativeTokens
    /\ th = [t \in Threads |->
               IF t = "main" THEN NewThread("init")
               ELSE IF t \in BalanceMonitors THEN NewThread("start")
               ELSE NewThread("wait")]

Init == call = NoCall /\ AtDiscovery

BalanceNext(t) ==
    \/ BalStart(t)
    \/ BalTick(t)
    \/ BalStop(t)
    \/ PtRead(t)
    \/ PtWrite(t)
    \/ Summary(t)

ClientNext(t) ==
    \/ GetClientLookup(t)
    \/ Connect(t)
    \/ ConnectFail(t)
    \/ InsertClient(t)
    \/ RpcReturn(t)
    \/ RpcFail(t)

Next ==
    \/ MainDiscover
    \/ \E t \in BalanceMonitors : BalanceNext(t)
    \/ RefreshTick
    \/ RefreshStop
    \/ Cancel
    \/ \E t \in BalanceMonitors \cup Discoverers : ClientNext(t)
    \/ \E t \in StubMonitors : StubTick(t) \/ StubStop(t)

Spec == Init /\ [][Next]_vars

\* The goroutines of main with calls that succeed, and the panics.
NextPanic ==
    \/ MainDiscover
    \/ \E t \in BalanceMonitors : BalanceNext(t)
    \/ RefreshTick
    \/ RefreshStop
    \/ Cancel
    \/ \E t \in BalanceMonitors \cup Discoverers :
          GetClientLookup(t) \/ Connect(t) \/ InsertClient(t) \/ RpcReturn(t)
    \/ \E t \in StubMonitors : StubTick(t) \/ StubStop(t)
    \/ \E t \in Threads : Panic(t)
    \/ \E t \in BalanceMonitors : ProcessPanic(t)

SpecPanic == Init /\ [][NextPanic]_vars

\* The balance monitor alone, over every configuration main can leave and
\* with the assets discovered by an earlier run in network_tokens.
InitRecon ==
    /\ call = NoCall
    /\ InitCommon
    /\ chain = [k \in ChainKeys |-> NoEntry]
    /\ \E inp \in ConfigInputs, botOk \in BOOLEAN :
          /\ cfg = MainConfig(Load(inp), botOk)
          /\ discord = NewDiscordClient(Load(inp), botOk)
    /\ \E notify \in BOOLEAN : accounts = AccountsTable(notify)
    /\ networks = NetworksTable
    /\ network_tokens = NativeTokens \cup {AssetToken}
    /\ th = [t \in Threads |->
               IF t \in BalanceMonitors THEN NewThread("start") ELSE NewThread("wait")]

NextRecon ==
    \/ Cancel
    \/ \E t \in BalanceMonitors : BalanceNext(t) \/ ClientNext(t)
    \/ \E k \in ChainKeys : \E v \in ChainValues(k) : ChainChange(k, v)

SpecRecon == InitRecon /\ [][NextRecon]_vars

\* The balance monitor alone with the default configuration.
InitDefault ==
    /\ InitRecon
    /\ cfg = MainConfig(Load(DefaultInputs), TRUE)
    /\ discord = NewDiscordClient(Load(DefaultInputs), TRUE)
    /\ accounts = AccountsTable(TRUE)

SpecDefault == InitDefault /\ [][NextRecon]_vars

\* The balance monitor alone with the default threshold, without a
\* notifier and with the webhook client.
InitNotify ==
    /\ InitRecon
    /\ cfg.MinBalanceChangeNotification = Load(DefaultInputs).MinBalanceChangeNotification
    /\ cfg.EnableNotifications
    /\ discord \in {"nil", "webhook"}
    /\ accounts = AccountsTable(TRUE)

SpecNotify == InitNotify /\ [][NextRecon]_vars

\* The balance monitor alone with the default configuration, over the
\* forms in which the operator writes the address of the account and the
\* id of the asset.
InitForms ==
    /\ call = NoCall
    /\ InitCommon
    /\ chain = [k \in ChainKeys |-> NoEntry]
    /\ cfg = MainConfig(Load(DefaultInputs), TRUE)
    /\ discord = NewDiscordClient(Load(DefaultInputs), TRUE)
    /\ \E address \in AddressForms : accounts = AccountsWith(TRUE, address)
    /\ networks = NetworksTable
    /\ \E tok \in {AssetToken, HexAssetToken} : network_tokens = NativeTokens \cup {tok}
    /\ th = [t \in Threads |->
               IF t \in BalanceMonitors THEN NewThread("start") ELSE NewThread("wait")]

SpecForms == InitForms /\ [][NextRecon]_vars

\* Both networks active: the initial discovery and the balance monitor go
\* over two (account, network) pairs; the native token row of the first
\* network is there or missing, the address of the account is one that
\* decodes or one that does not.
BothActive == [i \in 1..Len(NetworksTable) |-> [NetworksTable[i] EXCEPT !.Active = TRUE]]

PairTokens == {NativeTokens \cup {RelayToken(2)}, {RelayToken(1)}}

InitPairs ==
    /\ call = NoCall
    /\ InitCommon
    /\ chain = [k \in ChainKeys |->
                  IF k[3] = "System" THEN <<50, 0, 0>>
                  ELSE IF k[3] = "Assets" THEN <<5000000>> ELSE NoEntry]
    /\ cfg = MainConfig(Load(DefaultInputs), TRUE)
    /\ discord = NewDiscordClient(Load(DefaultInputs), TRUE)
    /\ \E address \in {HexAddress, NoAddress} : accounts = AccountsWith(TRUE, address)
    /\ networks = BothActive
    /\ network_tokens \in PairTokens
    /\ th = [t \in Threads |->
               IF t = "main" THEN NewThread("init")
               ELSE IF t \in BalanceMonitors THEN NewThread("start")
               ELSE NewThread("wait")]

NextPairs ==
    \/ MainDiscover
    \/ Cancel
    \/ \E t \in BalanceMonitors : BalanceNext(t)
    \/ \E t \in BalanceMonitors \cup {"main"} : ClientNext(t)

SpecPairs == InitPairs /\ [][NextPairs]_vars

\* The asset registered a second time, as a foreign asset.
ForeignToken ==
    [ID |-> 3, network_id |-> 1, token_type |-> "foreign_asset",
     token_id |-> FormatUint(ChainAssetID), symbol |-> "USDT", decimals |-> 6]

\* Two monitored accounts, written as the hex and as the SS58 address of
\* the same key.
TwoAccounts ==
    << [ID |-> 1, Address |-> HexAddress, MonitorEnabled |-> TRUE, DiscordNotify |-> TRUE],
       [ID |-> 2, Address |-> SS58Address, MonitorEnabled |-> TRUE, DiscordNotify |-> TRUE] >>

\* The balance monitor alone with the default configuration, two accounts
\* and three tokens, two of them with the same symbol.
InitRollup ==
    /\ call = NoCall
    /\ InitCommon
    /\ chain = [k \in ChainKeys |-> IF k[3] = "System" THEN <<40, 10, 0>> ELSE NoEntry]
    /\ cfg = MainConfig(Load(DefaultInputs), TRUE)
    /\ discord = NewDiscordClient(Load(DefaultInputs), TRUE)
    /\ accounts = TwoAccounts
    /\ networks = NetworksTable
    /\ network_tokens = NativeTokens \cup {AssetToken, ForeignToken}
    /\ th = [t \in Threads |->
               IF t \in BalanceMonitors THEN NewThread("start") ELSE NewThread("wait")]

\* The asset appears in one pallet or the other between the cycles.
NextRollup ==
    \/ Cancel
    \/ \E t \in BalanceMonitors : BalanceNext(t) \/ ClientNext(t)
    \/ \E k \in {c \in ChainKeys : c[3] # "System"} :
          \E v \in ChainValues(k) \ {NoEntry} : ChainChange(k, v)

SpecRollup == InitRollup /\ [][NextRollup]_vars

(***************************************************************************)
(* The functions of the manager, applied to arguments.                     *)
(***************************************************************************)
\* Everything but the function applied.
program == <<cfg, discord, accounts, networks, network_tokens, balances, balance_history,
             clock, chain, changes, clients, conns, ctxDone, th, observed, failures>>

\* Big-endian bytes divided by d: the bytes of the quotient, then the
\* remainder.
RECURSIVE DivSmall(_, _, _)
DivSmall(bytes, d, carry) ==
    IF bytes = <<>> THEN <<carry>>
    ELSE <<(256 * carry + bytes[1]) \div d>>
             \o DivSmall(Tail(bytes), d, (256 * carry + bytes[1]) % d)

\* The bytes after the leading zero bytes.
StripZeros(bytes) ==
    LET nz == {i \in 1..Len(bytes) : bytes[i] # 0}
    IN  IF nz = {} THEN <<>>
        ELSE SubSeq(bytes, CHOOSE i \in nz : \A j \in nz : i <= j, Len(bytes))

\* The digits in base 58 of a number given by its big-endian bytes.
RECURSIVE Base58Digits(_)
Base58Digits(bytes) ==
    IF bytes = <<>> THEN <<>>
    ELSE LET q == DivSmall(bytes, 58, 0)
         IN  Base58Digits(StripZeros(SubSeq(q, 1, Len(q) - 1))) \o <<q[Len(q)]>>

\* The address text of a buffer: a "1" for every leading zero byte, then
\* the number in base 58.
Base58Encode(bytes) ==
    LET rest   == StripZeros(bytes)
        digits == Base58Digits(rest)
    IN  [i \in 1..(Len(bytes) - Len(rest)) |-> "1"]
            \o [i \in 1..Len(digits) |-> Base58Alphabet[digits[i] + 1]]

\* Buffers of 34 to 37 bytes: a network prefix of none to three bytes, a
\* public key, two bytes of checksum.
PrefixBytes == {0, 42, 255}
Prefixes == UNION {[1..n -> PrefixBytes] : n \in 0..3}
PublicKeys == {AccountID(HexDecodeString(BareHexAddress)).id, [i \in 1..AccountIDLen |-> 0]}
Checksums == {SubSeq(Base58Decode(SS58Address).bytes, 34, 35), <<0, 0>>, <<255, 255>>}

\* The bytes without the zero bytes at the end.
StripTail(bytes) == Reverse(StripZeros(Reverse(bytes)))

\* A uint64 as its eight little-endian bytes.
Uint64Bytes(bytes) == [i \in 1..8 |-> IF i <= Len(bytes) THEN bytes[i] ELSE 0]

\* The little-endian number of the bytes, shifted right by two bits.
ShiftRight2(bytes) ==
    [i \in 1..Len(bytes) |->
        (bytes[i] \div 4) + (IF i < Len(bytes) THEN 64 * (bytes[i + 1] % 4) ELSE 0)]

\* The bytes a mode needs: one, two or four, or the length byte and the
\* bytes it counts.
CompactLen(first) ==
    CASE first % 4 = 0 -> 1
      [] first % 4 = 1 -> 2
      [] first % 4 = 2 -> 4
      [] OTHER -> (first \div 4) + 4 + 1

\* A decoder that takes the length byte of the big integer mode for the
\* number of bytes.
CompactLengthWithoutFour(data) ==
    IF data = <<>> \/ Len(data) < CompactLen(data[1]) THEN [value |-> Uint64Bytes(<<>>), n |-> 0]
    ELSE IF data[1] % 4 # 3
    THEN [value |-> Uint64Bytes(ShiftRight2(SubSeq(data, 1, CompactLen(data[1])))),
          n |-> CompactLen(data[1])]
    ELSE [value |-> Uint64Bytes(SubSeq(data, 2, 1 + (data[1] \div 4))),
          n |-> (data[1] \div 4) + 1]

\* A decoder that does not look at the length of the buffer: a byte that
\* is not there reads as zero.
CompactWithoutLengthCheck(data) ==
    IF data = <<>> THEN [value |-> Uint64Bytes(<<>>), n |-> 0]
    ELSE LET n      == CompactLen(data[1])
             padded == [i \in 1..n |-> IF i <= Len(data) THEN data[i] ELSE 0]
         IN  IF data[1] % 4 # 3
             THEN [value |-> Uint64Bytes(ShiftRight2(padded)), n |-> n]
             ELSE [value |-> Uint64Bytes(SubSeq(padded, 2, n)), n |-> n]

\* decodeCompact: the value as a uint64 and the number of bytes read,
\* both zero when the buffer is too short for its mode.
DecodeCompact(data) ==
    IF Len(data) = 0 THEN [value |-> Uint64Bytes(<<>>), n |-> 0]
    ELSE LET flag == data[1] % 4
         IN  CASE flag = 0 -> [value |-> Uint64Bytes(<<data[1] \div 4>>), n |-> 1]
               [] flag = 1 ->
                    IF Len(data) < 2 THEN [value |-> Uint64Bytes(<<>>), n |-> 0]
                    ELSE [value |-> Uint64Bytes(ShiftRight2(SubSeq(data, 1, 2))), n |-> 2]
               [] flag = 2 ->
                    IF Len(data) < 4 THEN [value |-> Uint64Bytes(<<>>), n |-> 0]
                    ELSE [value |-> Uint64Bytes(ShiftRight2(SubSeq(data, 1, 4))), n |-> 4]
               [] OTHER ->
                    LET n == (data[1] \div 4) + 4
                    IN  IF Len(data) < n + 1 THEN [value |-> Uint64Bytes(<<>>), n |-> 0]
                        ELSE [value |-> [i \in 1..8 |-> IF i <= n THEN data[i + 1] ELSE 0],
                              n |-> n + 1]

\* The compact encoding of a number given by its little-endian bytes
\* without zero bytes at the end: one, two or four bytes below 2^6, 2^14
\* and 2^30, else a length byte and the bytes of the number.
ShiftLeft2(bytes, n, flag) ==
    [i \in 1..n |->
        (IF i <= Len(bytes) THEN 4 * (bytes[i] % 64) ELSE 0)
            + (IF i = 1 THEN flag
               ELSE IF i - 1 <= Len(bytes) THEN bytes[i - 1] \div 64 ELSE 0)]

Below(bytes, n) == Len(bytes) < n \/ (Len(bytes) = n /\ bytes[n] < 64)

EncodeCompact(bytes) ==
    IF Below(bytes, 1) THEN ShiftLeft2(bytes, 1, 0)
    ELSE IF Below(bytes, 2) THEN ShiftLeft2(bytes, 2, 1)
    ELSE IF Below(bytes, 4) THEN ShiftLeft2(bytes, 4, 2)
    ELSE <<4 * (Len(bytes) - 4) + 3>> \o bytes

\* Numbers of up to MaxValueBytes bytes and one of 67, the longest the
\* big integer mode holds: a highest byte and the bytes below it.
MaxValueBytes == 10
HighBytes == {1, 63, 64, 255}
LowBytes == {0, 170, 255}
Numbers ==
    {<<>>} \cup
    {[i \in 1..n |-> IF i = n THEN h ELSE l] :
        n \in 1..MaxValueBytes \cup {67}, h \in HighBytes, l \in LowBytes}

\* What follows an encoding in the buffer.
Rests == {<<>>, <<7>>}

\* Buffers of up to MaxBufferLen bytes: a first byte for each mode and
\* the same byte after it.
MaxBufferLen == 11
FirstBytes == {0, 252, 1, 253, 2, 254, 3, 7, 19, 23}
Buffers ==
    {<<>>} \cup
    {[i \in 1..n |-> IF i = 1 THEN f ELSE l] :
        n \in 1..MaxBufferLen, f \in FirstBytes, l \in {0, 255}}

\* The code of the characters texts are made of: the space, "#", the
\* digits and the letters.
UpperCase ==
    << "A", "B", "C", "D", "E", "F", "G", "H", "I", "J", "K", "L", "M", "N", "O",
       "P", "Q", "R", "S", "T", "U", "V", "W", "X", "Y", "Z" >>

LowerCase ==
    << "a", "b", "c", "d", "e", "f", "g", "h", "i", "j", "k", "l", "m", "n", "o",
       "p", "q", "r", "s", "t", "u", "v", "w", "x", "y", "z" >>

Ascii ==
    (" " :> 32) @@ ("#" :> 35)
        @@ [c \in DOMAIN DecimalValues |-> 48 + DecimalValues[c]]
        @@ [c \in DOMAIN Values(UpperCase) |-> 65 + Values(UpperCase)[c]]
        @@ [c \in DOMAIN Values(LowerCase) |-> 97 + Values(LowerCase)[c]]

\* []byte(text)
Bytes(text) == [i \in 1..Len(text) |-> Ascii[text[i]]]

\* AssetMetadata; panic is set when the function does not return.
AssetMetadata(name, symbol, decimals) ==
    [panic |-> FALSE, Name |-> name, Symbol |-> symbol, Decimals |-> decimals]

SliceOutOfRange == [panic |-> TRUE, Name |-> <<>>, Symbol |-> <<>>, Decimals |-> 0]

\* "Return defaults if no metadata".
AssetDefaults(assetID) ==
    AssetMetadata(Bytes(Chars("Asset #") \o FormatUint(assetID)),
                  Bytes(Chars("ASSET") \o FormatUint(assetID)), 10)

\* "Fallback for unknown foreign assets".
ForeignFallback(assetID) ==
    AssetMetadata(Bytes(Chars("Foreign Asset #") \o FormatUint(assetID)),
                  Bytes(Chars("FA") \o FormatUint(assetID)), 10)

\* offset + int(length) in 64 bits: below zero, a number below 2^31, or
\* more.
AddInt(offset, length) ==
    LET sum == Uint64Bytes(MulAdd(length, 1, offset))
    IN  IF sum[8] >= 128 THEN [class |-> "negative", n |-> 0]
        ELSE IF (\A i \in 5..8 : sum[i] = 0) /\ sum[4] < 128
        THEN [class |-> "small",
              n |-> sum[1] + 256 * sum[2] + 65536 * sum[3] + 16777216 * sum[4]]
        ELSE [class |-> "huge", n |-> 0]

\* end <= len(data)
Within(end, data) == end.class = "negative" \/ (end.class = "small" /\ end.n <= Len(data))

\* data[offset:end] panics when end is below offset.
Panics(offset, end) == end.class = "negative" \/ end.n < offset

DepositLen == 16

\* The placeholder of every path is the defaults of the Assets pallet.
ForeignAsAssets(keyErr, reply, assetID) == AssetDefaults(assetID)

\* getAssetMetadata, after the storage query returned reply.
GetAssetMetadata(reply, assetID) ==
    LET data == reply.data
    IN  IF reply.err \/ ~reply.ok \/ Len(data) = 0 THEN AssetDefaults(assetID)
        ELSE IF Len(data) < DepositLen THEN AssetDefaults(assetID)
        ELSE
          LET nameLen   == DecodeCompact(SubSeq(data, DepositLen + 1, Len(data)))
              nameAt    == DepositLen + nameLen.n
              nameEnd   == AddInt(nameAt, nameLen.value)
          IN  IF ~Within(nameEnd, data) THEN AssetDefaults(assetID)
              ELSE IF Panics(nameAt, nameEnd) THEN SliceOutOfRange
              ELSE
                LET name      == SubSeq(data, nameAt + 1, nameEnd.n)
                    symbolLen == DecodeCompact(SubSeq(data, nameEnd.n + 1, Len(data)))
                    symbolAt  == nameEnd.n + symbolLen.n
                    symbolEnd == AddInt(symbolAt, symbolLen.value)
                IN  IF ~Within(symbolEnd, data)
                    THEN AssetMetadata(name, AssetDefaults(assetID).Symbol, 10)
                    ELSE IF Panics(symbolAt, symbolEnd) THEN SliceOutOfRange
                    ELSE AssetMetadata(name, SubSeq(data, symbolAt + 1, symbolEnd.n),
                                       IF symbolEnd.n < Len(data) THEN data[symbolEnd.n + 1]
                                       ELSE 10)

\* getForeignAssetMetadata, after CreateStorageKey and the storage query.
GetForeignAssetMetadata(keyErr, reply, assetID) ==
    LET data == reply.data
    IN  IF keyErr \/ reply.err \/ ~reply.ok \/ Len(data) <= DepositLen
        THEN ForeignFallback(assetID)
        ELSE
          LET nameLen   == DecodeCompact(SubSeq(data, DepositLen + 1, Len(data)))
              nameAt    == DepositLen + nameLen.n
              nameEnd   == AddInt(nameAt, nameLen.value)
              nameOk    == Within(nameEnd, data)
              name      == IF nameOk THEN SubSeq(data, nameAt + 1, nameEnd.n) ELSE <<>>
              symbolOff == IF nameOk THEN nameEnd.n ELSE nameAt
              symbolLen == DecodeCompact(SubSeq(data, symbolOff + 1, Len(data)))
              symbolAt  == symbolOff + symbolLen.n
              symbolEnd == AddInt(symbolAt, symbolLen.value)
              symbolOk  == Within(symbolEnd, data)
              symbol    == IF symbolOk THEN SubSeq(data, symbolAt + 1, symbolEnd.n) ELSE <<>>
              offset    == IF symbolOk THEN symbolEnd.n ELSE symbolAt
              decimals  == IF offset < Len(data) THEN data[offset + 1] ELSE 10
          IN  IF nameOk /\ Panics(nameAt, nameEnd) THEN SliceOutOfRange
              ELSE IF symbolOk /\ Panics(symbolAt, symbolEnd) THEN SliceOutOfRange
              ELSE IF name # <<>> /\ symbol # <<>> THEN AssetMetadata(name, symbol, decimals)
              ELSE ForeignFallback(assetID)

\* The replies of the storage query: an error, no entry, an empty value,
\* and values: the beginnings of the metadata of an asset (deposit, name,
\* symbol, decimals and one more field), empty texts, and lengths of
\* 2^64 - 1 and 2^63 - 1.
Vector(bytes) == EncodeCompact(StripTail(<<Len(bytes)>>)) \o bytes

Deposit == [i \in 1..DepositLen |-> 0]

TetherMetadata ==
    Deposit \o Vector(Bytes(Chars("Tether"))) \o Vector(Bytes(Chars("USDT"))) \o <<6, 1>>

MetadataValues ==
    {SubSeq(TetherMetadata, 1, n) : n \in 1..Len(TetherMetadata)}
    \cup {Deposit \o <<0, 0, 6>>,
          Deposit \o <<19>> \o [i \in 1..8 |-> 255] \o <<0, 6>>,
          Deposit \o Vector(Bytes(Chars("Tether"))) \o <<19>> \o [i \in 1..8 |-> 255],
          Deposit \o <<19>> \o [i \in 1..8 |-> IF i = 8 THEN 127 ELSE 255] \o <<0, 6>>}

Replies ==
    {[err |-> TRUE, ok |-> FALSE, data |-> <<>>],
     [err |-> FALSE, ok |-> FALSE, data |-> <<>>],
     [err |-> FALSE, ok |-> TRUE, data |-> <<>>]}
    \cup {[err |-> FALSE, ok |-> TRUE, data |-> d] : d \in MetadataValues}

AssetIds == {ChainAssetID, 1984}

\* A digest of n bytes of the data under a seed: what the hash functions
\* of the libraries are to the keys, bytes that depend on seed and data.
RECURSIVE Mix(_, _)
Mix(data, i) ==
    IF data = <<>> THEN i
    ELSE (31 * Mix(SubSeq(data, 1, Len(data) - 1), i) + data[Len(data)] + Len(data)) % 65521

Digest(seed, data, n) == [i \in 1..n |-> Mix(data, 7 * seed + i) % 256]

\* Twox128: the xxhash of the data with seed 0 and with seed 1, eight
\* little-endian bytes each.
Twox128(data) == Digest(0, data, 8) \o Digest(1, data, 8)

\* blake2b.New(16, nil), Write, Sum
Blake2b128(data) == Digest(2, data, 16)

\* binary.LittleEndian.PutUint32 and Uint32
PutUint32(n) == Uint32Bytes(MulAdd(<<>>, 1, n))

Uint32(bytes) == bytes[1] + 256 * bytes[2] + 65536 * bytes[3] + 16777216 * bytes[4]

\* The prefix of the keys of a storage item: discoverAssets for the
\* listing, getAssetMetadata for the entry.
StoragePrefix(pallet, item) == Twox128(Bytes(Chars(pallet))) \o Twox128(Bytes(Chars(item)))

\* A key without the digest of the hasher.
KeyWithoutDigest(pallet, assetID) ==
    StoragePrefix(pallet, "Metadata") \o PutUint32(assetID)

\* The key getAssetMetadata queries: "Build storage key manually".
MetadataKey(pallet, assetID) ==
    LET assetIDBytes == PutUint32(assetID)
    IN  StoragePrefix(pallet, "Metadata") \o Blake2b128(assetIDBytes) \o assetIDBytes

\* The key of an asset in the listing of a pallet.
AssetKeyOf(pallet, assetID) ==
    StoragePrefix(pallet, "Asset") \o Blake2b128(PutUint32(assetID)) \o PutUint32(assetID)

KeyLen == 52

\* An extraction that takes the id for the bytes after the prefix.
IdAfterPrefix(keyBytes) ==
    IF Len(keyBytes) < KeyLen THEN [ok |-> FALSE, id |-> 0]
    ELSE [ok |-> TRUE, id |-> Uint32(SubSeq(keyBytes, 33, 36))]

\* extractAssetIDFromKey
ExtractAssetIDFromKey(keyBytes) ==
    IF Len(keyBytes) < KeyLen THEN [ok |-> FALSE, id |-> 0]
    ELSE [ok |-> TRUE, id |-> Uint32(SubSeq(keyBytes, 49, 52))]

\* The reply of a chain without the Metadata entry.
NoEntryReply == [err |-> FALSE, ok |-> FALSE, data |-> <<>>]

\* The row a discovery stores for an asset.
TokenRow(type, assetID, metadata, pallet) ==
    [token_type |-> type, token_id |-> FormatUint(assetID), symbol |-> metadata.Symbol,
     name |-> metadata.Name, decimals |-> metadata.Decimals, pallet_name |-> pallet]

\* discoverAssets, "Process each asset": the rows stored for the keys
\* listed.
RECURSIVE DiscoverAssetKeys(_, _)
DiscoverAssetKeys(palletName, keys) ==
    IF keys = <<>> THEN <<>>
    ELSE LET r         == ExtractAssetIDFromKey(Head(keys))
             tokenType == IF palletName = "ForeignAssets" THEN "foreign_asset" ELSE "asset"
         IN  (IF ~r.ok THEN <<>>
              ELSE <<TokenRow(tokenType, r.id, GetAssetMetadata(NoEntryReply, r.id),
                              palletName)>>)
                 \o DiscoverAssetKeys(palletName, Tail(keys))

KnownForeignAsset == 50921730

\* discoverForeignAssets, "Process each foreign asset".
RECURSIVE DiscoverForeignAssetKeys(_)
DiscoverForeignAssetKeys(keys) ==
    IF keys = <<>> THEN <<>>
    ELSE LET key     == Head(keys)
             assetID == Uint32(SubSeq(key, 49, 52))
         IN  (IF Len(key) < KeyLen THEN <<>>
              ELSE <<TokenRow("foreign_asset", assetID,
                              IF assetID = KnownForeignAsset
                              THEN AssetMetadata(Bytes(Chars("Kusama")), Bytes(Chars("KSM")), 12)
                              ELSE GetForeignAssetMetadata(FALSE, NoEntryReply, assetID),
                              "ForeignAssets")>>)
                 \o DiscoverForeignAssetKeys(Tail(keys))

\* The pallets with assets, and ids of assets.
AssetPallets == {"Assets", "ForeignAssets"}

KeyIds == AssetIds \cup {0, 255, 256, KnownForeignAsset, 2147483647}

\* Keys a listing returns: of assets, one byte short, the prefix alone,
\* and a key with more after the id.
ListedKeys ==
    {AssetKeyOf("Assets", ChainAssetID), AssetKeyOf("ForeignAssets", KnownForeignAsset),
     SubSeq(AssetKeyOf("Assets", 1984), 1, KeyLen - 1), StoragePrefix("Assets", "Asset"),
     AssetKeyOf("Assets", 256) \o <<1, 2>>}

MaxKeys == 3

KeyLists == UNION {[1..n -> ListedKeys] : n \in 0..MaxKeys}

\* A function about to be applied to an argument.
Apply(fn, arg) == [fn |-> fn, arg |-> arg, ret |-> <<>>, done |-> FALSE]

Pending(fn) == call.fn = fn /\ ~call.done

Return(ret) ==
    /\ call' = [call EXCEPT !.ret = ret, !.done = TRUE]
    /\ UNCHANGED program

SS58Calls ==
    {Apply("decodeSS58Address", [prefix |-> p, key |-> k, checksum |-> c]) :
        p \in Prefixes, k \in PublicKeys, c \in Checksums}

\* decodeSS58Address of the text of a buffer.
DecodeSS58 ==
    /\ Pending("decodeSS58Address")
    /\ Return(DecodeSS58Address(
                  Base58Encode(call.arg.prefix \o call.arg.key \o call.arg.checksum)))

CompactCalls ==
    {Apply("decodeCompact", [value |-> v, rest |-> r]) : v \in Numbers, r \in Rests}

\* decodeCompact of a buffer that begins with the encoding of a number.
DecodeEncoding ==
    /\ Pending("decodeCompact")
    /\ Return(DecodeCompact(EncodeCompact(call.arg.value) \o call.arg.rest))

BufferCalls == {Apply("decodeCompact buffer", b) : b \in Buffers}

\* decodeCompact of a buffer.
DecodeBuffer ==
    /\ Pending("decodeCompact buffer")
    /\ Return(DecodeCompact(call.arg))

MetadataCalls ==
    {Apply("getAssetMetadata", [reply |-> r, assetID |-> id]) : r \in Replies, id \in AssetIds}

\* getAssetMetadata with the reply of the chain.
AssetMetadataReturn ==
    /\ Pending("getAssetMetadata")
    /\ Return(GetAssetMetadata(call.arg.reply, call.arg.assetID))

ForeignMetadataCalls ==
    {Apply("getForeignAssetMetadata", [keyErr |-> k, reply |-> r, assetID |-> id]) :
        k \in BOOLEAN, r \in Replies, id \in AssetIds}

\* getForeignAssetMetadata with the reply of the chain.
ForeignMetadataReturn ==
    /\ Pending("getForeignAssetMetadata")
    /\ Return(GetForeignAssetMetadata(call.arg.keyErr, call.arg.reply, call.arg.assetID))

KeyCalls ==
    {Apply("storage key", [pallet |-> p, assetID |-> id]) : p \in AssetPallets, id \in KeyIds}

\* The prefix discoverAssets lists and the key getAssetMetadata queries.
StorageKeyReturn ==
    /\ Pending("storage key")
    /\ Return([prefix |-> StoragePrefix(call.arg.pallet, "Asset"),
               key    |-> MetadataKey(call.arg.pallet, call.arg.assetID)])

ExtractCalls ==
    {Apply("extractAssetIDFromKey", [pallet |-> p, assetID |-> id]) :
        p \in AssetPallets, id \in KeyIds}

\* extractAssetIDFromKey of the key of an asset.
ExtractReturn ==
    /\ Pending("extractAssetIDFromKey")
    /\ Return(ExtractAssetIDFromKey(AssetKeyOf(call.arg.pallet, call.arg.assetID)))

DiscoverCalls ==
    {Apply("discoverAssets", [pallet |-> p, keys |-> k]) : p \in AssetPallets, k \in KeyLists}
    \cup {Apply("discoverForeignAssets", [pallet |-> "ForeignAssets", keys |-> k]) :
            k \in KeyLists}

\* The loop of discoverAssets over the keys listed.
DiscoverAssetsReturn ==
    /\ Pending("discoverAssets")
    /\ Return(DiscoverAssetKeys(call.arg.pallet, call.arg.keys))

\* The loop of discoverForeignAssets over the keys listed.
DiscoverForeignAssetsReturn ==
    /\ Pending("discoverForeignAssets")
    /\ Return(DiscoverForeignAssetKeys(call.arg.keys))

Calls ==
    SS58Calls \cup CompactCalls \cup BufferCalls \cup MetadataCalls \cup ForeignMetadataCalls
        \cup KeyCalls \cup ExtractCalls \cup DiscoverCalls

InitFunctions == call \in Calls /\ AtDiscovery

NextFunctions ==
    \/ DecodeSS58
    \/ DecodeEncoding
    \/ DecodeBuffer
    \/ AssetMetadataReturn
    \/ ForeignMetadataReturn
    \/ StorageKeyReturn
    \/ ExtractReturn
    \/ DiscoverAssetsReturn
    \/ DiscoverForeignAssetsReturn

SpecFunctions == InitFunctions /\ [][NextFunctions]_vars

(***************************************************************************)
(* The properties.  th[t].last is the latest processTokenBalance of the    *)
(* balance goroutine t: what it read, what it fetched, what it left.       *)
(***************************************************************************)
Reconciled(t) == th[t].last.seq > 0

\* The total stored for a triple, zero when there is no row.
StoredTotal(k) == PreviousBalance(balances, k[1], k[2], k[3]).Total

\* The total the chain holds for a token of the active network.
ChainTotal(a, net, tok) ==
    IF tok.token_type = "native"
    THEN NativeBalance(chain[<<a, net, "System", <<>>>>]).Total
    ELSE IF chain[<<a, net, "Assets", ParseUint32(tok.token_id).bytes>>] # NoEntry
    THEN AssetBalance(chain[<<a, net, "Assets", ParseUint32(tok.token_id).bytes>>]).Total
    ELSE IF chain[<<a, net, "ForeignAssets", ParseUint32(tok.token_id).bytes>>] # NoEntry
    THEN AssetBalance(chain[<<a, net, "ForeignAssets", ParseUint32(tok.token_id).bytes>>]).Total
    ELSE 0

\* |change| / 10^decimals >= micros / 10^6, in exact arithmetic.
ExactGeq(change, decimals, micros) ==
    IF decimals >= 6 THEN Abs(change) >= micros * Pow10(decimals - 6)
    ELSE Abs(change) * Pow10(6 - decimals) >= micros

\* |change| / 10^decimals = micros / 10^6, in exact arithmetic.
ExactEq(change, decimals, micros) ==
    IF decimals >= 6 THEN Abs(change) = micros * Pow10(decimals - 6)
    ELSE Abs(change) * Pow10(6 - decimals) = micros

\* whole + frac / 10^4 >= micros / 10^6 with whole = |change| / 10^decimals
\* and frac = (|change| % 10^decimals) * 10^4 / 10^decimals, the divisions
\* being integer divisions.
TruncatedGeq(change, decimals, micros) ==
    LET whole == Abs(change) \div Pow10(decimals)
        rest  == Abs(change) % Pow10(decimals)
        frac  == IF decimals >= 4 THEN rest \div Pow10(decimals - 4)
                 ELSE rest * Pow10(4 - decimals)
    IN  (whole * 10000 + frac) * 100 >= micros

\* C1: a reconciliation with a nonzero delta stores the new Balance for the
\* triple and appends exactly one BalanceChange row.
C1_HistoryAppended ==
    \A t \in BalanceMonitors :
        (Reconciled(t) /\ th[t].last.change # 0) =>
            /\ \E r \in th[t].last.rowsAfter : ScanBalance(r) = th[t].last.fetched
            /\ th[t].last.appended = 1

\* C2: after a balance cycle in which no call failed, and as long as the
\* chain is as the cycle saw it, the total stored for every token of every
\* monitored account on every active network is the total on the chain; a
\* stored asset total whose chain balance became zero is zero.
C2_EveryTokenReconciled ==
    \A t \in BalanceMonitors :
        (th[t].pc = "wait" /\ th[t].cycles > 0 /\ th[t].epoch = changes /\ failures = 0) =>
            \A i \in 1..Len(GetAccounts(accounts)), j \in 1..Len(GetNetworks(networks)) :
                \A tok \in network_tokens :
                    tok.network_id = GetNetworks(networks)[j].ID =>
                        StoredTotal(<<GetAccounts(accounts)[i].ID,
                                      GetNetworks(networks)[j].ID, tok.ID>>)
                            = ChainTotal(GetAccounts(accounts)[i].ID,
                                         GetNetworks(networks)[j].Name, tok)

\* C3: a reconciliation with delta zero leaves the rows of the triple as
\* they were, every field and last_updated included, creates no row and
\* appends no BalanceChange row.
C3_ZeroDeltaNoChange ==
    \A t \in BalanceMonitors :
        (Reconciled(t) /\ th[t].last.change = 0) =>
            /\ th[t].last.rowsAfter = th[t].last.rowsBefore
            /\ th[t].last.appended = 0

\* C4: for a nonzero delta the alert is sent if and only if the magnitude
\* in human units reaches the threshold, the account has discord_notify and
\* notifications are globally enabled.
C4_AlertIffAllThree ==
    \A t \in BalanceMonitors :
        (Reconciled(t) /\ th[t].last.change # 0) =>
            (th[t].last.notified <=>
                /\ ExactGeq(th[t].last.change, th[t].last.decimals,
                            cfg.MinBalanceChangeNotification)
                /\ th[t].last.notify
                /\ cfg.EnableNotifications)

\* C5: a delta whose magnitude in human units equals the threshold is
\* notified, for an account with discord_notify and a Discord client.
C5_ThresholdInclusive ==
    \A t \in BalanceMonitors :
        (/\ Reconciled(t)
         /\ th[t].last.change # 0
         /\ ExactEq(th[t].last.change, th[t].last.decimals, cfg.MinBalanceChangeNotification)
         /\ th[t].last.notify
         /\ discord # "nil") => th[t].last.notified

\* C6: the alert decision is the one obtained from the magnitude truncated
\* to four fractional digits, for an account with discord_notify and a
\* Discord client.
C6_TruncatedMagnitude ==
    \A t \in BalanceMonitors :
        (Reconciled(t) /\ th[t].last.change # 0 /\ th[t].last.notify /\ discord # "nil") =>
            (th[t].last.notified <=>
                TruncatedGeq(th[t].last.change, th[t].last.decimals,
                             cfg.MinBalanceChangeNotification))

\* C7: a reconciliation that fetches the Balance the preceding
\* reconciliation of the triple fetched has delta zero; a reconciliation
\* leaves exactly one Balance row for its triple; there is never more than
\* one Balance row per triple.
C7_RepeatIsIdempotent ==
    /\ \A t \in BalanceMonitors :
           Reconciled(t) =>
               /\ th[t].last.repeated => th[t].last.change = 0
               /\ Cardinality(th[t].last.rowsAfter) = 1
    /\ \A k \in Triples : Cardinality(BalanceRows(balances, k[1], k[2], k[3])) <= 1

\* A second cycle reconciled a nonzero Balance that the cycle before had
\* reconciled.
C7_Witness ==
    \E t \in BalanceMonitors :
        /\ Reconciled(t)
        /\ th[t].cycles >= 2
        /\ th[t].last.repeated
        /\ th[t].last.fetched.Total > 0
        /\ th[t].last.change = 0

\* A goroutine between the SELECT of processTokenBalance and its write.
InProgress(t) == th[t].pc = "ptWrite"

\* C8: no two read/compute/write sequences for one triple are in progress
\* at once; the previous Balance a sequence computes its delta from is the
\* one stored when it writes; the Balance a goroutine wrote last is the one
\* stored for the triple.
C8_UpsertsSerialized ==
    /\ \A t1, t2 \in BalanceMonitors :
           (t1 # t2 /\ InProgress(t1) /\ InProgress(t2)) => Triple(th[t1]) # Triple(th[t2])
    /\ \A t \in BalanceMonitors :
           InProgress(t) =>
               LET k == Triple(th[t])
               IN  /\ th[t].exists = BalanceExists(balances, k[1], k[2], k[3])
                   /\ th[t].prev = PreviousBalance(balances, k[1], k[2], k[3])
    /\ \A t \in BalanceMonitors :
           Reconciled(t) =>
               LET k == th[t].last.triple
               IN  PreviousBalance(balances, k[1], k[2], k[3]) = th[t].last.fetched

\* The balance goroutine is between its SELECT and its write of a row that
\* exists while the refresh loop has a call in flight.
C8_Witness ==
    \E t \in BalanceMonitors :
        /\ InProgress(t)
        /\ th[t].exists
        /\ th[t].fetched.Total > 0
        /\ th["refresh"].pc = "rpc"

\* C9: at most one connection is ever created for a network name.
C9_OneConnectionPerNetwork ==
    \A i, j \in 1..Len(conns) : conns[i] = conns[j] => i = j

\* C10: no two chain calls are in flight on the connection of one network.
C10_OneCallInFlight ==
    \A t1, t2 \in Threads :
        (t1 # t2 /\ th[t1].pc = "rpc" /\ th[t2].pc = "rpc") =>
            CurNetwork(th[t1]).Name # CurNetwork(th[t2]).Name

\* The goroutines that run a periodic cycle whose iterations are counted.
Cyclic == BalanceMonitors \cup {"refresh"}

\* C11: once the context is cancelled no new iteration of a periodic cycle
\* starts: no step taken with ctxDone begins a balance check or a network
\* refresh.
C11_NoIterationAfterCancel ==
    [][ctxDone => \A t \in Cyclic : th'[t].cycles = th[t].cycles]_vars

\* C12: a panic in an iteration of one cycle is recovered in the goroutine
\* of that cycle: no step taken once the cycles run ends the process, and the step
\* in which a goroutine panics leaves every other goroutine where it was.
C12_FaultsIsolated ==
    /\ [][Started => \A t \in Threads : th'[t].pc # "crashed"]_vars
    /\ [][\A t \in Threads :
              (th'[t].pc = "panicked" /\ th[t].pc # "panicked") =>
                  \A u \in Threads \ {t} : th'[u] = th[u]]_vars

\* The refresh loop has panicked and the balance cycle has stored a Balance
\* since.
C12_Witness ==
    /\ th["refresh"].pc = "panicked"
    /\ \E t \in BalanceMonitors : th[t].pc = "rpc"
    /\ \E r \in balances : r.last_updated >= th["refresh"].panicAt

\* The (account, network) pairs a balance cycle is to process.
AllPairs ==
    {<<GetAccounts(accounts)[i].ID, GetNetworks(networks)[j].ID>> :
        i \in 1..Len(GetAccounts(accounts)), j \in 1..Len(GetNetworks(networks))}

\* The position of a network in the table.
NetworkIndex(id) == CHOOSE i \in 1..Len(networks) : networks[i].ID = id

\* C13: a balance cycle ends only after it went to every (account, network)
\* pair, and has stored the native Balance of every pair whose address
\* decodes, whose network did not fail in the cycle and has a native token
\* row; a discovery that was not cancelled went to every active network.
C13_FailuresIsolated ==
    /\ \A t \in BalanceMonitors :
           (th[t].pc = "wait" /\ th[t].cycles > 0) =>
               /\ th[t].visited = AllPairs
               /\ \A k \in AllPairs : \A tok \in network_tokens :
                      (/\ tok.network_id = k[2]
                       /\ tok.token_type = "native"
                       /\ networks[NetworkIndex(k[2])].Name \notin th[t].failed
                       /\ \A i \in 1..Len(accounts) :
                              accounts[i].ID = k[1] =>
                                  DecodeAddressNative(accounts[i].Address).ok)
                          => BalanceRows(balances, k[1], k[2], tok.ID) # {}
    /\ (th["main"].pc = "wait" /\ ~ctxDone) =>
           th["main"].visited =
               {<<0, GetNetworks(networks)[j].ID>> : j \in 1..Len(GetNetworks(networks))}

\* A first cycle has ended in which the first network failed and the
\* Balance on the second network was stored.
C13_Witness ==
    \E t \in BalanceMonitors :
        /\ th[t].pc = "wait"
        /\ th[t].cycles = 1
        /\ th[t].failed = {"assethub"}
        /\ \E r \in balances : r.network_id = 2

\* C14: a network on which a connection attempt or a call failed in a
\* balance cycle gets no further connection attempt or call in that cycle,
\* and a connection once cached stays cached.
C14_NoRetryInCycle ==
    /\ \A t \in BalanceMonitors :
           th[t].pc \in {"connect", "rpc"} => CurNetwork(th[t]).Name \notin th[t].failed
    /\ \A c \in 1..Len(conns) :
           (\A t \in Threads : ~(th[t].pc = "insert" /\ th[t].api = c))
               => clients[conns[c]] # 0

\* The Balance a cycle without failed calls stores for a token: what the
\* chain holds.
ChainBalance(a, net, tok) ==
    IF tok.token_type = "native" THEN NativeBalance(chain[<<a, net, "System", <<>>>>])
    ELSE IF chain[<<a, net, "Assets", ParseUint32(tok.token_id).bytes>>] # NoEntry
    THEN AssetBalance(chain[<<a, net, "Assets", ParseUint32(tok.token_id).bytes>>])
    ELSE IF chain[<<a, net, "ForeignAssets", ParseUint32(tok.token_id).bytes>>] # NoEntry
    THEN AssetBalance(chain[<<a, net, "ForeignAssets", ParseUint32(tok.token_id).bytes>>])
    ELSE ZeroBalance

\* C15: when the loops of a cycle without failed calls are through, and an
\* alert of the cycle could not be sent or there is no notifier, the cycle
\* went to every pair and the row of every native token and of every asset
\* with a nonzero balance holds the Balance of the chain, as after a cycle
\* whose alerts were all sent; and sending the summary changes no row.
C15_NotifierBestEffort ==
    /\ [](\A t \in BalanceMonitors :
             (/\ th[t].pc = "summary"
              /\ th[t].failed = {}
              /\ th[t].undelivered # {} \/ discord = "nil") =>
                 /\ th[t].visited = AllPairs
                 /\ \A k \in AllPairs : \A tok \in network_tokens :
                        LET b == ChainBalance(k[1], networks[NetworkIndex(k[2])].Name, tok)
                        IN  (tok.network_id = k[2]
                             /\ (tok.token_type = "native" \/ b.Total # 0)) =>
                                \E r \in BalanceRows(balances, k[1], k[2], tok.ID) :
                                    ScanBalance(r) = b)
    /\ [][\A t \in BalanceMonitors :
              th[t].pc = "summary" =>
                  /\ balances' = balances
                  /\ th'[t].pc \in {"summary", "wait"}]_vars

\* The alert for the native token could not be sent, and the asset of the
\* same cycle was reconciled and stored after it.
C15_Witness ==
    \E t \in BalanceMonitors :
        /\ th[t].pc = "summary"
        /\ th[t].failed = {}
        /\ th[t].undelivered = {<<1, 1, 1>>}
        /\ th[t].last.triple = <<1, 1, 2>>
        /\ \E r \in BalanceRows(balances, 1, 1, 2) : r.total = BigString(5000000)

\* The rows of table balances that belong to a native token.
NativeRows ==
    {r \in balances : \E tok \in network_tokens :
        tok.ID = r.network_token_id /\ tok.token_type = "native"}

\* C16: the Balance GetBalance returned for a System.Account record has
\* total = free + reserved, feeFrozen = 0 and bonded = 0, and so has every
\* row stored for a native token.
C16_NativeTotal ==
    /\ \A t \in BalanceMonitors :
           (th[t].pc \in {"ptRead", "ptWrite"} /\ th[t].op = "native") =>
               /\ th[t].fetched.Total = th[t].fetched.Free + th[t].fetched.Reserved
               /\ th[t].fetched.FeeFrozen = 0
               /\ th[t].fetched.Bonded = 0
    /\ \A r \in NativeRows :
           /\ SetString(r.total) = SetString(r.free) + SetString(r.reserved)
           /\ SetString(r.fee_frozen) = 0
           /\ SetString(r.bonded) = 0

\* A native row with a reserved part has been stored.
C16_Witness ==
    \E r \in NativeRows : SetString(r.reserved) = 10 /\ SetString(r.total) = 50

\* C17: GetBalance for an account without a System.Account entry returns
\* the all-zero Balance and no error: the cycle goes on to reconcile it,
\* and when its loops are through without a failed call, the row of the
\* native token holds the all-zero Balance.
C17_MissingAccountIsZero ==
    \A t \in BalanceMonitors :
        /\ (/\ th[t].pc \in {"ptRead", "ptWrite"}
            /\ th[t].op = "native"
            /\ Entry(chain, StorageKey(th[t], "System", <<>>)) = NoEntry) =>
               th[t].fetched = ZeroBalance
        /\ (th[t].pc = "summary" /\ th[t].failed = {}) =>
               \A k \in AllPairs : \A tok \in network_tokens :
                   (/\ tok.network_id = k[2]
                    /\ tok.token_type = "native"
                    /\ chain[<<k[1], networks[NetworkIndex(k[2])].Name, "System", <<>>>>]
                           = NoEntry) =>
                       \E r \in BalanceRows(balances, k[1], k[2], tok.ID) :
                           ScanBalance(r) = ZeroBalance

\* The loops of a cycle are through and the account, which has no
\* System.Account entry, has its all-zero row.
C17_Witness ==
    \E t \in BalanceMonitors :
        /\ th[t].pc = "summary"
        /\ th[t].failed = {}
        /\ chain[<<1, "assethub", "System", <<>>>>] = NoEntry
        /\ \E r \in NativeRows : ScanBalance(r) = ZeroBalance

\* C18: what GetAssetBalance returned in a cycle without failed calls is
\* the balance of the Assets entry when there is one, else that of the
\* ForeignAssets entry when there is one, with total = free and nothing
\* else, and the all-zero Balance when there is neither.
C18_AssetsThenForeign ==
    \A t \in BalanceMonitors :
        (th[t].ret.seq = 1 /\ th[t].ret.err = "" /\ th[t].failed = {}
             /\ th[t].epoch = changes) =>
            LET k == th[t].ret.triple
                id == ParseUint32((CHOOSE r \in network_tokens : r.ID = k[3]).token_id).bytes
                a == <<k[1], networks[NetworkIndex(k[2])].Name, "Assets", id>>
                f == <<k[1], networks[NetworkIndex(k[2])].Name, "ForeignAssets", id>>
                e == IF chain[a] # NoEntry THEN chain[a] ELSE chain[f]
            IN  th[t].ret.balance =
                    IF e = NoEntry THEN ZeroBalance
                    ELSE [ZeroBalance EXCEPT !.Free = e[1], !.Total = e[1]]

\* GetAssetBalance found no Assets entry and returned the balance of the
\* ForeignAssets entry.
C18_Witness ==
    \E t \in BalanceMonitors :
        /\ th[t].ret.seq = 1
        /\ th[t].failed = {}
        /\ th[t].epoch = changes
        /\ chain[<<1, "assethub", "Assets", AssetKey>>] = NoEntry
        /\ th[t].ret.balance.Total = 3000000

\* C19: GetAssetBalance rejects the asset id in neither form, and the raw
\* key it reads is the little-endian u32 of a decimal id and the bytes of
\* a 0x-prefixed hex id.
C19_BothAssetIdForms ==
    \A t \in BalanceMonitors :
        (th[t].ret.seq = 1 /\ th[t].ret.err # "address") =>
            LET id == (CHOOSE r \in network_tokens : r.ID = th[t].ret.triple[3]).token_id
            IN  /\ th[t].ret.err = ""
                /\ th[t].ret.raw = IF HasPrefix(id, <<"0", "x">>)
                                   THEN HexDecodeString(id).bytes
                                   ELSE Uint32Bytes(LittleEndian(
                                            [i \in 1..Len(id) |-> IndexOf(DecimalValues, id[i])],
                                            10))

\* C20: an address text GetBalance decoded in a cycle is decoded by
\* GetAssetBalance in that cycle, to the same account id.
C20_SameAddressForms ==
    \A t \in BalanceMonitors :
        (th[t].got.seq = 1 /\ th[t].got.ok /\ th[t].ret.seq = 1) =>
            /\ th[t].ret.err # "address"
            /\ th[t].ret.id = th[t].got.id

\* C21: the text of a buffer of 35 or 36 bytes decodes to the 32 bytes
\* after its prefix of one or two bytes, whatever the prefix and the
\* checksum are; a buffer of another length is an invalid-length error
\* with no account id.
C21_PublicKeyExtracted ==
    (call.fn = "decodeSS58Address" /\ call.done) =>
        IF Len(call.arg.prefix) \in {1, 2}
        THEN call.ret.ok /\ call.ret.id = call.arg.key
        ELSE /\ ~call.ret.ok
             /\ call.ret.id = <<>>
             /\ call.ret.err = "invalid address length"

\* A two-byte prefix and a checksum that is not the checksum of the key.
C21_Witness ==
    /\ call.fn = "decodeSS58Address"
    /\ call.done
    /\ call.arg.prefix = <<255, 0>>
    /\ call.arg.checksum = <<0, 0>>
    /\ call.ret.ok
    /\ Len(call.ret.id) = AccountIDLen

\* C22: decodeCompact of the compact encoding of a number returns the
\* length of the encoding and the number, its low eight bytes when the
\* number is 2^64 or more.
C22_CompactRoundTrip ==
    (call.fn = "decodeCompact" /\ call.done) =>
        /\ call.ret.n = Len(EncodeCompact(call.arg.value))
        /\ call.ret.value = Uint64Bytes(call.arg.value)

\* A number of nine bytes: the low eight come back, ten bytes are read.
C22_Witness ==
    /\ call.fn = "decodeCompact"
    /\ call.done
    /\ Len(call.arg.value) = 9
    /\ call.arg.rest # <<>>
    /\ call.ret.n = 10
    /\ call.ret.value = [i \in 1..8 |-> 255]

\* C23: decodeCompact returns (0, 0) for a buffer shorter than its mode
\* needs, and otherwise reads 1, 2, 4 or (first byte >> 2) + 5 bytes, all
\* of them in the buffer.
C23_CompactWithinBuffer ==
    (call.fn = "decodeCompact buffer" /\ call.done) =>
        LET data  == call.arg
            needs == IF data = <<>> THEN 1
                     ELSE IF data[1] % 4 = 0 THEN 1
                     ELSE IF data[1] % 4 = 1 THEN 2
                     ELSE IF data[1] % 4 = 2 THEN 4
                     ELSE (data[1] \div 4) + 5
        IN  IF Len(data) < needs
            THEN call.ret.n = 0 /\ call.ret.value = [i \in 1..8 |-> 0]
            ELSE call.ret.n = needs /\ call.ret.n <= Len(data)

\* The big integer mode one byte short of the six it needs.
C23_Witness ==
    /\ call.fn = "decodeCompact buffer"
    /\ call.done
    /\ Len(call.arg) = 5
    /\ call.arg[1] = 7
    /\ call.arg[2] = 255
    /\ call.ret.n = 0

\* The query of a metadata call gave no value: CreateStorageKey or the
\* query failed, there is no entry, or the entry is empty.
NoValue(c) ==
    \/ c.arg.reply.err
    \/ ~c.arg.reply.ok
    \/ c.arg.reply.data = <<>>
    \/ (c.fn = "getForeignAssetMetadata" /\ c.arg.keyErr)

MetadataReturned == call.done /\ call.fn \in {"getAssetMetadata", "getForeignAssetMetadata"}

\* C24: without a value of the Metadata entry the result is the name
\* "Asset #<id>", the symbol "ASSET<id>" and 10 decimals from
\* getAssetMetadata, and the name "Foreign Asset #<id>", the symbol
\* "FA<id>" and 10 decimals from getForeignAssetMetadata.
C24_PlaceholderWithoutValue ==
    (MetadataReturned /\ NoValue(call)) =>
        LET id == FormatUint(call.arg.assetID)
        IN  IF call.fn = "getAssetMetadata"
            THEN call.ret = [panic |-> FALSE, Decimals |-> 10,
                             Name |-> Bytes(Chars("Asset #") \o id),
                             Symbol |-> Bytes(Chars("ASSET") \o id)]
            ELSE call.ret = [panic |-> FALSE, Decimals |-> 10,
                             Name |-> Bytes(Chars("Foreign Asset #") \o id),
                             Symbol |-> Bytes(Chars("FA") \o id)]

\* No entry for the foreign asset 7.
C24_Witness ==
    /\ call.fn = "getForeignAssetMetadata"
    /\ call.done
    /\ ~call.arg.keyErr /\ ~call.arg.reply.err /\ ~call.arg.reply.ok
    /\ call.arg.assetID = 7
    /\ call.ret.Symbol = <<70, 65, 55>>
    /\ call.ret.Decimals = 10

\* C24 as the claim has it: without a value of the Metadata entry the
\* name is "Asset #<id>" on both paths, the symbol "ASSET<id>", "FA<id>"
\* for a foreign asset, and the decimals 10.
C24_AssetPlaceholder ==
    (MetadataReturned /\ NoValue(call)) =>
        LET id == FormatUint(call.arg.assetID)
        IN  /\ ~call.ret.panic
            /\ call.ret.Name = Bytes(Chars("Asset #") \o id)
            /\ call.ret.Symbol = Bytes(Chars(IF call.fn = "getAssetMetadata" THEN "ASSET"
                                             ELSE "FA") \o id)
            /\ call.ret.Decimals = 10

\* A byte vector at an offset of the value: the length prefix and the
\* bytes it declares are there, or they are not.
ByteVector(data, at) ==
    LET prefix == DecodeCompact(SubSeq(data, at + 1, Len(data)))
        end    == AddInt(at + prefix.n, prefix.value)
    IN  IF at <= Len(data) /\ prefix.n > 0 /\ AddInt(0, prefix.value).class = "small"
           /\ end.class = "small" /\ end.n <= Len(data)
        THEN [ok |-> TRUE, bytes |-> SubSeq(data, at + prefix.n + 1, end.n), next |-> end.n]
        ELSE [ok |-> FALSE, bytes |-> <<>>, next |-> at]

\* C25: of a value of the Metadata entry, on both paths, the name, the
\* symbol and the decimals that decode after the 16 bytes of deposit are
\* returned as decoded and the others as their placeholders.
C25_ProgressiveFallback ==
    (MetadataReturned /\ ~NoValue(call)) =>
        LET id       == FormatUint(call.arg.assetID)
            data     == call.arg.reply.data
            name     == ByteVector(data, DepositLen)
            symbol   == IF name.ok THEN ByteVector(data, name.next) ELSE name
        IN  /\ ~call.ret.panic
            /\ call.ret.Name = IF name.ok THEN name.bytes ELSE Bytes(Chars("Asset #") \o id)
            /\ call.ret.Symbol =
                  IF symbol.ok THEN symbol.bytes
                  ELSE Bytes(Chars(IF call.fn = "getAssetMetadata" THEN "ASSET" ELSE "FA") \o id)
            /\ call.ret.Decimals =
                  IF symbol.ok /\ symbol.next < Len(data) THEN data[symbol.next + 1] ELSE 10

\* C26: the prefix of a listing is the 16 bytes of the pallet and the 16
\* bytes of the item, 32 bytes; the key of a map entry is the prefix of
\* its item, the 16 bytes of the digest of the raw key and the raw key,
\* 52 bytes for an asset id; the 16 bytes of the pallet are the same for
\* every item.
C26_StorageKeyLayout ==
    (call.fn = "storage key" /\ call.done) =>
        LET pallet == Twox128(Bytes(Chars(call.arg.pallet)))
            raw    == PutUint32(call.arg.assetID)
        IN  /\ Len(pallet) = 16
            /\ Len(call.ret.prefix) = 32
            /\ call.ret.prefix = pallet \o Twox128(Bytes(Chars("Asset")))
            /\ Len(call.ret.key) = 32 + 16 + Len(raw)
            /\ Len(call.ret.key) = 52
            /\ SubSeq(call.ret.key, 1, 32) = pallet \o Twox128(Bytes(Chars("Metadata")))
            /\ SubSeq(call.ret.key, 33, 48) = Blake2b128(raw)
            /\ SubSeq(call.ret.key, 49, 52) = raw
            /\ SubSeq(call.ret.key, 1, 16) = SubSeq(call.ret.prefix, 1, 16)

C26_Witness ==
    /\ call.fn = "storage key"
    /\ call.done
    /\ call.arg.pallet = "ForeignAssets"
    /\ call.arg.assetID = 1984
    /\ SubSeq(call.ret.key, 49, 52) = <<192, 7, 0, 0>>
    /\ SubSeq(call.ret.key, 17, 32) # SubSeq(call.ret.prefix, 17, 32)

\* C27: the id extracted from the key of an asset is the id of the
\* asset; of the keys of a listing, those shorter than 52 bytes are left
\* out and every other key has its asset stored, in the order listed.
C27_ExtractInvertsKey ==
    /\ (call.fn = "extractAssetIDFromKey" /\ call.done) =>
            call.ret = [ok |-> TRUE, id |-> call.arg.assetID]
    /\ (call.fn \in {"discoverAssets", "discoverForeignAssets"} /\ call.done) =>
            LET long == SelectSeq(call.arg.keys, LAMBDA k : Len(k) >= 52)
            IN  /\ Len(call.ret) = Len(long)
                /\ \A i \in 1..Len(long) :
                      /\ call.ret[i].token_id \in
                            {FormatUint(id) : id \in {n \in KeyIds :
                                 PutUint32(n) = SubSeq(long[i], 49, 52)}}
                      /\ call.ret[i].pallet_name = call.arg.pallet

\* A key one byte short between the keys of two assets.
C27_Witness ==
    /\ call.fn = "discoverAssets"
    /\ call.done
    /\ Len(call.arg.keys) = 3
    /\ Len(call.arg.keys[1]) = 52
    /\ Len(call.arg.keys[2]) = 51
    /\ Len(call.arg.keys[3]) > 52
    /\ Len(call.ret) = 2
    /\ call.ret[2].token_id = <<"2", "5", "6">>

RECURSIVE SumOver(_, _, _)
\* The sum of a field of the balances of a symbol in a list.
SumOver(list, sym, field) ==
    IF list = <<>> THEN 0
    ELSE (IF Head(list).Symbol = sym THEN Head(list)[field] ELSE 0)
             + SumOver(Tail(list), sym, field)

RECURSIVE Concat(_, _)
\* The lists of f, for the keys in S, one after the other.
Concat(f, S) ==
    IF S = {} THEN <<>>
    ELSE LET k == CHOOSE x \in S : TRUE IN f[k].TokenBalances \o Concat(f, S \ {k})

\* Totals and changes by symbol are the sums over the balances listed.
SumsOf(totalsBy, changesBy, list) ==
    /\ DOMAIN totalsBy = {list[i].Symbol : i \in 1..Len(list)}
    /\ DOMAIN changesBy = DOMAIN totalsBy
    /\ \A sym \in DOMAIN totalsBy :
          /\ totalsBy[sym] = SumOver(list, sym, "Balance")
          /\ changesBy[sym] = SumOver(list, sym, "Change")

\* C28: the totals and the changes of the summary, and of the rollup
\* while the cycle runs, are for every symbol the sums of the totals and
\* of the deltas of the balances reconciled in the cycle, for the
\* portfolio over all accounts and for an account over its balances; the
\* balance listed last is the one reconciled last.
C28_RollupExact ==
    \A t \in BalanceMonitors :
        LET s == th[t]
        IN  /\ SumsOf(s.portfolioTotalsByToken, s.portfolioChangesByToken,
                      Concat(s.accountBalances, DOMAIN s.accountBalances))
            /\ \A id \in DOMAIN s.accountBalances :
                  LET ab == s.accountBalances[id]
                  IN  /\ SumsOf(ab.TotalsByToken, ab.ChangesByToken, ab.TokenBalances)
                      /\ ab.TokenBalances # <<>>
            /\ (s.accountBalances # EmptyMap /\ s.pc # "summary") =>
                  LET list == s.accountBalances[s.last.triple[1]].TokenBalances
                  IN  /\ list[Len(list)].Balance = s.last.after
                      /\ list[Len(list)].Change = s.last.after - s.last.before
            /\ s.summary.built =>
                  LET r == s.summary
                  IN  /\ SumsOf([sym \in DOMAIN r.TotalsByToken |-> r.TotalsByToken[sym].Total],
                                [sym \in DOMAIN r.TotalsByToken |-> r.TotalsByToken[sym].Change],
                                Concat(r.AccountSummaries, DOMAIN r.AccountSummaries))
                      /\ \A id \in DOMAIN r.AccountSummaries :
                            SumsOf(r.AccountSummaries[id].TotalsByToken,
                                   r.AccountSummaries[id].ChangesByToken,
                                   r.AccountSummaries[id].TokenBalances)

\* A summary over two accounts with the asset under both of its rows, in
\* a cycle after the chain changed.
C28_Witness ==
    \E t \in BalanceMonitors :
        /\ th[t].summary.built
        /\ th[t].cycles = 2
        /\ Len(th[t].summary.AccountSummaries[1].TokenBalances) = 3
        /\ th[t].summary.TotalsByToken["USDT"].Total = 20000000
        /\ th[t].summary.TotalsByToken["USDT"].Change = 20000000
        /\ th[t].summary.AccountSummaries[2].TotalsByToken["USDT"] = 10000000
        /\ th[t].summary.TotalsByToken["DOT"].Total = 100

\* C30: the kind of a reconciled balance is the token_type of its row of
\* network_tokens.
C30_KindAsRegistered ==
    \A t \in BalanceMonitors :
        th[t].last.seq = 1 =>
            th[t].last.tokenType =
                (CHOOSE r \in network_tokens : r.ID = th[t].last.triple[3]).token_type

\* C29: a balance monitor that recovered from a panic in an iteration is
\* still in its loop, at an iteration or waiting for the next tick, as
\* long as the context is not cancelled.
C29_LoopOutlivesPanic ==
    \A t \in BalanceMonitors :
        (th[t].panicAt > 0 /\ ~ctxDone) => th[t].pc \notin {"panicked", "stopped"}

=============================================================================
